---- MODULE Spec2Model ----
(***************************************************************************)
(* Model of the ClusterProfile reconciler (controllers package).           *)
(*                                                                         *)
(* The API server is a set of object stores keyed by (namespace, name).    *)
(* Each reconcile worker (one per ClusterProfile key, as the work queue    *)
(* guarantees) walks through Reconcile one API call at a time; its local   *)
(* copies of objects live in w[p].  Reads are linearizable.  An API call   *)
(* may fail with a non-conflict error wherever the code handles one.       *)
(***************************************************************************)
EXTENDS Integers, Sequences, FiniteSets, TLC

VARIABLES
    clusters,           \* CAPI Cluster store: key -> [labels, deleting]
    machines,           \* set of Machine objects
    profiles,           \* ClusterProfile store: name -> object
    ccs,                \* ClusterConfiguration store: key -> [owners, resources]
    summaries,          \* ClusterSummary store: key -> object
    reports,            \* ClusterReport store: key -> object
    ClusterMap,         \* r.ClusterMap
    ClusterProfileMap,  \* r.ClusterProfileMap
    ClusterProfiles,    \* r.ClusterProfiles
    w,                  \* per worker: position in Reconcile and local copies
    conc,               \* TRUE when reconciles of different profiles interleave
    envBudget           \* external changes still allowed in this behaviour

vars == <<clusters, machines, profiles, ccs, summaries, reports,
          ClusterMap, ClusterProfileMap, ClusterProfiles, w, conc, envBudget>>

api == <<clusters, machines, profiles, ccs, summaries, reports>>
index == <<ClusterMap, ClusterProfileMap, ClusterProfiles>>

(***************************************************************************)
(* Bounds and universes                                                    *)
(***************************************************************************)
MaxEnvChanges == 2
MaxRetry == 2

ProfileOrder == <<"p1", "p2">>
Profiles == {"p1", "p2"}

\* cluster keys are <<namespace, name>>
\* the last two pairs differ in namespace and in name and read the same once
\* joined by a hyphen
ClusterOrder == << <<"a", "c1">>, <<"a", "c2">>, <<"a-b", "c">>, <<"a", "b-c">> >>
ClusterKeys == {ClusterOrder[i] : i \in 1..Len(ClusterOrder)}

LabelSets == {[env |-> "prod"], [env |-> "dev"]}

\* a selector is a sequence of requirements <<key, operator, value>>
SelProd == << <<"env", "=", "prod">> >>
SelDev == << <<"env", "=", "dev">> >>
SelBad == << <<"env", "=>", "prod">> >>
Selectors == {SelProd, SelDev, SelBad}

SyncModes == {"Continuous", "OneTime", "DryRun"}
Payloads == {"helm-v1", "helm-v2"}
AnnotationSets == {"none", "paused"}

\* machine sets a cluster may have: none, a running control plane, a
\* provisioning control plane with a running worker
MachinesOf(k, cfg) ==
    CASE cfg = "none" -> {}
      [] cfg = "cpRunning" ->
           {[ns |-> k[1], cluster |-> k[2], name |-> "m1", cp |-> TRUE, phase |-> "Running"]}
      [] cfg = "cpProvisioning" ->
           {[ns |-> k[1], cluster |-> k[2], name |-> "m1", cp |-> TRUE, phase |-> "Provisioning"],
            [ns |-> k[1], cluster |-> k[2], name |-> "m2", cp |-> FALSE, phase |-> "Running"]}
MachineConfigs == {"cpRunning", "cpProvisioning"}

(***************************************************************************)
(* Helpers                                                                 *)
(***************************************************************************)
Range(s) == {s[i] : i \in 1..Len(s)}

Contains(s, x) == \E i \in 1..Len(s) : s[i] = x

RECURSIVE Filter(_, _)
Filter(s, keep) ==
    IF s = <<>> THEN <<>>
    ELSE IF Head(s) \in keep THEN <<Head(s)>> \o Filter(Tail(s), keep)
         ELSE Filter(Tail(s), keep)

\* function f with key k (re)bound to v, and with key k removed
Put(f, k, v) == [x \in DOMAIN f \cup {k} |-> IF x = k THEN v ELSE f[x]]
Drop(f, k) == [x \in DOMAIN f \ {k} |-> f[x]]

\* GetClusterSummaryName / getClusterReportName: deterministic in (profile, cluster name)
GetClusterSummaryName(profileName, clusterName) == profileName \o "--" \o clusterName
getClusterReportName(profileName, clusterName) == profileName \o "--" \o clusterName

SummaryKey(p, k) == <<k[1], GetClusterSummaryName(p, k[2])>>
ReportKey(p, k) == <<k[1], getClusterReportName(p, k[2])>>

\* the order in which the API server lists summaries
SummaryOrder ==
    [n \in 1..(Len(ProfileOrder) * Len(ClusterOrder)) |->
        SummaryKey(ProfileOrder[((n - 1) \div Len(ClusterOrder)) + 1],
                   ClusterOrder[((n - 1) % Len(ClusterOrder)) + 1])]

\* the order in which the API server lists reports
ReportOrder ==
    [n \in 1..(Len(ProfileOrder) * Len(ClusterOrder)) |->
        ReportKey(ProfileOrder[((n - 1) \div Len(ClusterOrder)) + 1],
                  ClusterOrder[((n - 1) % Len(ClusterOrder)) + 1])]

(***************************************************************************)
(* labels.Parse and Selector.Matches                                       *)
(***************************************************************************)
ValidOps == {"=", "==", "!="}

\* labels.Parse: the requirements, or "error" (the returned selector is nil)
Parse(selector) ==
    IF \A i \in 1..Len(selector) : selector[i][2] \in ValidOps
    THEN [err |-> FALSE, reqs |-> Range(selector)]
    ELSE [err |-> TRUE, reqs |-> {}]

ReqMatches(req, labels) ==
    IF req[2] = "!="
    THEN ~(req[1] \in DOMAIN labels /\ labels[req[1]] = req[3])
    ELSE req[1] \in DOMAIN labels /\ labels[req[1]] = req[3]

Matches(parsed, labels) == \A req \in parsed.reqs : ReqMatches(req, labels)

(***************************************************************************)
(* Worker-local state                                                      *)
(***************************************************************************)
NoCopy == [key |-> <<>>, owners |-> <<>>, resources |-> <<>>, fresh |-> FALSE]

IdleW == [pc |-> "idle",
          path |-> "none",        \* "normal" or "delete"
          prof |-> <<>>,          \* clusterProfileScope.ClusterProfile
          i |-> 0,                \* loop index
          stale |-> NoCopy,       \* clusterConfiguration (read once, reused)
          cur |-> NoCopy,         \* currentClusterConfiguration
          list |-> <<>>,          \* items of the ClusterConfiguration List
          slist |-> <<>>,         \* items of the ClusterSummary List
          tries |-> 0,            \* RetryOnConflict attempts (outer)
          inner |-> 0,            \* RetryOnConflict attempts (nested)
          err |-> FALSE,          \* reterr # nil
          requeueAfter |-> FALSE, \* Result.RequeueAfter = deleteRequeueAfter
          panic |-> FALSE,
          listed |-> FALSE,       \* getMatchingClusters has returned the match set
          drainFalse |-> FALSE,   \* a summary List of a drain check failed or was not empty
          drainChecks |-> 0,      \* drain checks passed in this run
          createFailed |-> FALSE, \* a Create of a ClusterSummary failed in this run
          prev |-> "none",        \* how the run just before ended, when this run
                                  \* follows it at once: "succeeded", "createFailed"
          queued |-> FALSE,       \* the key of the profile is in the work queue
          conflicted |-> FALSE,   \* the Status().Update adding the section of the
                                  \* profile has met a conflict in this run
          detachConflict |-> FALSE, \* the Update removing the owner reference has
                                  \* met a conflict in this run
          toBeRemoved |-> {},     \* updatesMaps: clusters not matched anymore
          locked |-> <<>>,        \* the three maps as they were when r.Mux was taken
          seen |-> <<>>]          \* the three maps as an event mapper has read them

Idle(p) == w[p].pc = "idle"

\* the work queue never runs one key twice at a time; different keys run in
\* parallel when ConcurrentReconciles > 1
Sched(p) == conc \/ \A q \in Profiles \ {p} : Idle(q)

\* the function body is left: its locals are gone, the deferred Close runs
Leave(wp) == [wp EXCEPT !.pc = "Close", !.i = 0, !.stale = NoCopy, !.cur = NoCopy,
                        !.list = <<>>, !.slist = <<>>, !.tries = 0, !.inner = 0]

\* the error is noted and the function body goes on
noteError(wp) == [wp EXCEPT !.err = TRUE]

\* return an error
Fail(wp) == [Leave(wp) EXCEPT !.err = TRUE]


\* every local copy of ClusterConfiguration k, in every worker, now carries an
\* outdated resourceVersion
Invalidate(ww, k) ==
    [q \in DOMAIN ww |->
        [ww[q] EXCEPT
            !.cur = IF @.key = k THEN [@ EXCEPT !.fresh = FALSE] ELSE @,
            !.list = [n \in 1..Len(@) |->
                        IF @[n].key = k THEN [@[n] EXCEPT !.fresh = FALSE] ELSE @[n]]]]

CopyOf(k) == [key |-> k, owners |-> ccs[k].owners, resources |-> ccs[k].resources,
              fresh |-> TRUE]

\* util.IsOwnedByObject
IsOwnedByObject(owners, p) == Contains(owners, p)

\* util.EnsureOwnerRef: replace the reference in place, or append it
EnsureOwnerRef(owners, p) == IF Contains(owners, p) THEN owners ELSE Append(owners, p)

\* util.RemoveOwnerRef
RemoveOwnerRef(owners, p) == Filter(owners, Range(owners) \ {p})

(***************************************************************************)
(* Initial states                                                          *)
(***************************************************************************)
NewProfile(sel, mode) ==
    [finalizer |-> FALSE, deleting |-> FALSE, selector |-> sel, syncMode |-> mode,
     payload |-> "helm-v1", annotations |-> "none", matching |-> <<>>]

NewCluster(labels) == [labels |-> labels, deleting |-> FALSE]

Cluster1 == <<"a", "c1">>
Cluster2 == <<"a", "c2">>

\* nothing derived exists yet
InitFresh ==
    /\ ccs = <<>>
    /\ summaries = <<>>
    /\ reports = <<>>
    /\ ClusterMap = <<>>
    /\ ClusterProfileMap = <<>>
    /\ ClusterProfiles = <<>>

\* profile p2 (env=prod, Continuous) has been reconciled and is at rest
SettledProfile ==
    [NewProfile(SelProd, "Continuous") EXCEPT
        !.finalizer = TRUE,
        !.matching = Filter(ClusterOrder,
                            {k \in DOMAIN clusters : clusters[k].labels = [env |-> "prod"]})]

InitSettled ==
    LET matched == Range(SettledProfile.matching) IN
    /\ ccs = [k \in matched |-> [owners |-> <<"p2">>, resources |-> <<"p2">>]]
    /\ summaries = <<>>
    /\ reports = <<>>
    /\ ClusterMap = [k \in matched |-> {"p2"}]
    /\ ClusterProfileMap = ("p2" :> matched)
    /\ ClusterProfiles = ("p2" :> SelProd)

\* A new profile p1 beside the settled profile p2, two clusters; reconciles run
\* one at a time.
Init ==
    /\ conc = FALSE
    /\ clusters = (Cluster1 :> NewCluster([env |-> "prod"])) @@ (Cluster2 :> NewCluster([env |-> "dev"]))
    /\ machines = MachinesOf(Cluster1, "cpRunning") \cup MachinesOf(Cluster2, "cpRunning")
    /\ \E sel \in {SelProd, SelDev}, mode \in SyncModes :
         profiles = ("p1" :> NewProfile(sel, mode)) @@ ("p2" :> SettledProfile)
    /\ InitSettled
    /\ w = [p \in Profiles |-> IdleW]
    /\ envBudget = MaxEnvChanges

\* Two new profiles selecting the same cluster; their reconciles interleave.
InitConc ==
    /\ conc = TRUE
    /\ clusters = (Cluster1 :> NewCluster([env |-> "prod"]))
    /\ \E cfg \in MachineConfigs : machines = MachinesOf(Cluster1, cfg)
    /\ profiles = ("p1" :> NewProfile(SelProd, "Continuous"))
                  @@ ("p2" :> NewProfile(SelProd, "Continuous"))
    /\ InitFresh
    /\ w = [p \in Profiles |-> IdleW]
    /\ envBudget = MaxEnvChanges - 1

(***************************************************************************)
(* Reconcile                                                               *)
(***************************************************************************)
\* Reconcile: fetch the ClusterProfile, build the scope, pick the path
Reconcile(p) ==
    /\ Idle(p)
    /\ Sched(p)
    /\ p \in DOMAIN profiles
    /\ w' = [w EXCEPT ![p] =
                [IdleW EXCEPT
                    !.prof = profiles[p],
                    !.path = IF profiles[p].deleting THEN "delete" ELSE "normal",
                    !.pc = IF profiles[p].deleting THEN "reconcileDelete"
                           ELSE IF profiles[p].finalizer THEN "getMatchingClusters"
                           ELSE "addFinalizer"]]
    /\ UNCHANGED <<api, index, conc, envBudget>>

\* addFinalizer that sets the finalizer on the local object only
addFinalizerLocally(p) ==
    /\ w[p].pc = "addFinalizer"
    /\ Sched(p)
    /\ w' = [w EXCEPT ![p].prof.finalizer = TRUE, ![p].pc = "getMatchingClusters"]
    /\ UNCHANGED <<api, index, conc, envBudget>>

\* addFinalizer: AddFinalizer on the local object, then PatchObject
addFinalizer(p) ==
    /\ w[p].pc = "addFinalizer"
    /\ Sched(p)
    /\ \E ok \in BOOLEAN :
         IF ok
         THEN /\ profiles' = [profiles EXCEPT ![p].finalizer = TRUE]
              /\ w' = [w EXCEPT ![p].prof.finalizer = TRUE,
                                ![p].pc = "getMatchingClusters"]
         ELSE /\ w' = [w EXCEPT ![p] = Fail([@ EXCEPT !.prof.finalizer = TRUE])]
              /\ UNCHANGED profiles
    /\ UNCHANGED <<clusters, machines, ccs, summaries, reports, index, conc, envBudget>>

\* getMatchingClusters without the DeletionTimestamp test
MatchingIgnoringDeletion(parsed, cls) ==
    Filter(Filter(ClusterOrder, DOMAIN cls),
           {k \in DOMAIN cls : Matches(parsed, cls[k].labels)})

\* the clusters getMatchingClusters returns for a parsed selector
MatchingOf(parsed, cls) ==
    Filter(Filter(ClusterOrder, DOMAIN cls),
           {k \in DOMAIN cls : ~cls[k].deleting /\ Matches(parsed, cls[k].labels)})

\* getMatchingClusters + SetMatchingClusterRefs.  labels.Parse returns a nil
\* Selector on error and the error is dropped: Matches on it panics as soon as
\* one listed cluster has a zero deletion timestamp.
getMatchingClusters(p) ==
    /\ w[p].pc = "getMatchingClusters"
    /\ Sched(p)
    /\ \E ok \in BOOLEAN :
         LET parsed == Parse(w[p].prof.selector) IN
         IF ~ok THEN w' = [w EXCEPT ![p] = Fail(@)]
         ELSE IF parsed.err /\ \E k \in DOMAIN clusters : ~clusters[k].deleting
         THEN w' = [w EXCEPT ![p] = [Fail(@) EXCEPT !.panic = TRUE]]
         ELSE w' = [w EXCEPT ![p].prof.matching = MatchingOf(parsed, clusters),
                             ![p].listed = TRUE,
                             ![p].pc = "updatesMaps"]
    /\ UNCHANGED <<api, index, conc, envBudget>>

\* an insert that replaces the entry of k by the single consumer p
ClusterMapReplace(cm, k, p) == Put(cm, k, {p})

\* r.getClusterMapForEntry(entry) followed by insert / erase of profile p
ClusterMapInsert(cm, k, p) == Put(cm, k, (IF k \in DOMAIN cm THEN cm[k] ELSE {}) \cup {p})
ClusterMapErase(cm, k, p) == Put(cm, k, (IF k \in DOMAIN cm THEN cm[k] ELSE {}) \ {p})

\* an insert loop that records nothing
noInsert(cm, ks, p) == cm

RECURSIVE InsertAll(_, _, _)
InsertAll(cm, ks, p) ==
    IF ks = <<>> THEN cm ELSE InsertAll(ClusterMapInsert(cm, Head(ks), p), Tail(ks), p)

\* an erase loop that removes nothing
noErase(cm, ks, p) == cm

RECURSIVE EraseAll(_, _, _)
EraseAll(cm, ks, p) ==
    IF ks = {} THEN cm
    ELSE LET k == CHOOSE x \in ks : TRUE IN EraseAll(ClusterMapErase(cm, k, p), ks \ {k}, p)

\* updatesMaps: the whole body runs under r.Mux
updatesMaps(p) ==
    /\ w[p].pc = "updatesMaps"
    /\ Sched(p)
    /\ LET currentClusters == Range(w[p].prof.matching)
           toBeRemoved == IF p \in DOMAIN ClusterProfileMap
                          THEN ClusterProfileMap[p] \ currentClusters ELSE {}
       IN /\ ClusterMap' = EraseAll(InsertAll(ClusterMap, w[p].prof.matching, p), toBeRemoved, p)
          /\ ClusterProfileMap' = Put(ClusterProfileMap, p, currentClusters)
          /\ ClusterProfiles' = Put(ClusterProfiles, p, w[p].prof.selector)
    /\ w' = [w EXCEPT ![p].i = 1,
                      ![p].pc = IF w[p].prof.matching = <<>> THEN "updateClusterReports"
                                ELSE "createClusterConfiguration"]
    /\ UNCHANGED <<api, conc, envBudget>>

\* The MapFunc of the Cluster watch, for Cluster k carrying the given labels:
\* the profiles ClusterMap records for k, and the profiles whose recorded
\* selector matches the labels (an unparseable selector matches nothing).  It
\* reads the three maps only.
requeueClusterProfileForCluster(k, labels) ==
    (IF k \in DOMAIN ClusterMap THEN ClusterMap[k] ELSE {})
    \cup {p \in DOMAIN ClusterProfiles :
            LET parsed == Parse(ClusterProfiles[p]) IN
            ~parsed.err /\ Matches(parsed, labels)}


(***************************************************************************)
(* updatesMaps statement by statement, r.Mux made explicit.  A worker      *)
(* holds r.Mux from Lock to the deferred Unlock.                           *)
(***************************************************************************)
MuxPcs == {"insert", "erase", "storeClusterProfileMap", "storeClusterProfiles"}

\* a mutex that excludes nobody
MuxIgnored == TRUE

\* r.Mux is not held
MuxFree == \A q \in Profiles : w[q].pc \notin MuxPcs

\* r.Mux.Lock(), then the read of the clusters not matched anymore
Lock(p) ==
    /\ w[p].pc = "updatesMaps"
    /\ MuxFree
    /\ w' = [w EXCEPT ![p].toBeRemoved =
                        IF p \in DOMAIN ClusterProfileMap
                        THEN ClusterProfileMap[p] \ Range(w[p].prof.matching) ELSE {},
                      ![p].locked = index,
                      ![p].i = 1,
                      ![p].pc = "insert"]
    /\ UNCHANGED <<api, index, conc, envBudget>>

\* one turn of the loop adding the profile as consumer of a matching cluster
insert(p) ==
    /\ w[p].pc = "insert"
    /\ IF w[p].i <= Len(w[p].prof.matching)
       THEN /\ ClusterMap' = ClusterMapInsert(ClusterMap, w[p].prof.matching[w[p].i], p)
            /\ w' = [w EXCEPT ![p].i = @ + 1]
       ELSE /\ ClusterMap' = ClusterMap
            /\ w' = [w EXCEPT ![p].pc = "erase"]
    /\ UNCHANGED <<api, ClusterProfileMap, ClusterProfiles, conc, envBudget>>

\* one turn of the loop removing the profile as consumer of a cluster not
\* matched anymore
erase(p) ==
    /\ w[p].pc = "erase"
    /\ IF w[p].toBeRemoved # {}
       THEN \E k \in w[p].toBeRemoved :
              /\ ClusterMap' = ClusterMapErase(ClusterMap, k, p)
              /\ w' = [w EXCEPT ![p].toBeRemoved = @ \ {k}]
       ELSE /\ ClusterMap' = ClusterMap
            /\ w' = [w EXCEPT ![p].pc = "storeClusterProfileMap"]
    /\ UNCHANGED <<api, ClusterProfileMap, ClusterProfiles, conc, envBudget>>

\* r.ClusterProfileMap[clusterProfileInfo] = currentClusters
storeClusterProfileMap(p) ==
    /\ w[p].pc = "storeClusterProfileMap"
    /\ ClusterProfileMap' = Put(ClusterProfileMap, p, Range(w[p].prof.matching))
    /\ w' = [w EXCEPT ![p].pc = "storeClusterProfiles"]
    /\ UNCHANGED <<api, ClusterMap, ClusterProfiles, conc, envBudget>>

\* r.ClusterProfiles[clusterProfileInfo] = Spec.ClusterSelector, then the
\* deferred r.Mux.Unlock()
Unlock(p) ==
    /\ w[p].pc = "storeClusterProfiles"
    /\ ClusterProfiles' = Put(ClusterProfiles, p, w[p].prof.selector)
    /\ w' = [w EXCEPT ![p].i = 1,
                      ![p].locked = <<>>,
                      ![p].pc = IF w[p].prof.matching = <<>> THEN "updateClusterReports"
                                ELSE "createClusterConfiguration"]
    /\ UNCHANGED <<api, ClusterMap, ClusterProfileMap, conc, envBudget>>

\* An event mapper reads the three maps while it holds r.Mux.
MapperRead ==
    /\ MuxFree
    /\ w["mapper"].seen # index
    /\ w' = [w EXCEPT !["mapper"].seen = index]
    /\ UNCHANGED <<api, index, conc, envBudget>>


(***************************************************************************)
(* Fan-out: updateClusterConfigurations                                    *)
(***************************************************************************)
Cluster(p) == w[p].prof.matching[w[p].i]

\* the loop of updateClusterConfigurations moves to the next matching cluster
NextConfiguration(wp) ==
    IF wp.i < Len(wp.prof.matching)
    THEN [wp EXCEPT !.i = @ + 1, !.pc = "createClusterConfiguration", !.tries = 0, !.inner = 0,
                    !.stale = NoCopy, !.cur = NoCopy]
    ELSE [wp EXCEPT !.i = 1, !.pc = "updateClusterReports", !.tries = 0, !.inner = 0,
                    !.stale = NoCopy, !.cur = NoCopy]

\* a Create that puts the new object in the place of an existing one
ReplaceConfiguration(cs, k) == Put(cs, k, [owners |-> <<>>, resources |-> <<>>])

\* r.Create of the ClusterConfiguration of cluster k: the API server stores the
\* new object unless one of that name exists (AlreadyExists)
CreateConfiguration(cs, k) ==
    IF k \in DOMAIN cs THEN cs ELSE Put(cs, k, [owners |-> <<>>, resources |-> <<>>])

\* createClusterConfiguration: Create, AlreadyExists is success
createClusterConfiguration(p) ==
    /\ w[p].pc = "createClusterConfiguration"
    /\ Sched(p)
    /\ \E ok \in BOOLEAN :
         IF ~ok THEN w' = [w EXCEPT ![p] = Fail(@)] /\ UNCHANGED ccs
         ELSE /\ ccs' = CreateConfiguration(ccs, Cluster(p))
              /\ w' = [w EXCEPT ![p].pc = "updateClusterConfiguration"]
    /\ UNCHANGED <<clusters, machines, profiles, summaries, reports, index, conc, envBudget>>

\* updateClusterConfiguration: getClusterConfiguration, then the IsOwnedByObject
\* test of updateClusterConfigurationOwnerReferences on that copy
updateClusterConfiguration(p) ==
    /\ w[p].pc = "updateClusterConfiguration"
    /\ Sched(p)
    /\ \E ok \in BOOLEAN :
         IF ~ok \/ Cluster(p) \notin DOMAIN ccs THEN w' = [w EXCEPT ![p] = Fail(@)]
         ELSE w' = [w EXCEPT ![p].stale = CopyOf(Cluster(p)),
                             ![p].tries = 0,
                             ![p].pc = IF IsOwnedByObject(ccs[Cluster(p)].owners, p)
                                       THEN "resourcesGet" ELSE "ownerReferencesGet"]
    /\ UNCHANGED <<api, index, conc, envBudget>>

\* a getClusterConfiguration inside a retry loop: on success the copy goes to cur
GetCurrent(p, at, to) ==
    /\ w[p].pc = at
    /\ Sched(p)
    /\ \E ok \in BOOLEAN :
         IF ~ok \/ Cluster(p) \notin DOMAIN ccs THEN w' = [w EXCEPT ![p] = Fail(@)]
         ELSE w' = [w EXCEPT ![p].cur = CopyOf(Cluster(p)), ![p].pc = to]
    /\ UNCHANGED <<api, index, conc, envBudget>>

\* updateClusterConfigurationOwnerReferences, the Get of the retry closure
ownerReferencesGet(p) == GetCurrent(p, "ownerReferencesGet", "ownerReferencesUpdate")

\* the owner references the retry closure writes: EnsureOwnerRef is applied to
\* the copy the caller read earlier, not to currentClusterConfiguration
OwnerReferencesToWrite(wp, p) == EnsureOwnerRef(wp.stale.owners, p)

\* updateClusterConfigurationOwnerReferences, the Update of the retry closure
ownerReferencesUpdate(p) ==
    /\ w[p].pc = "ownerReferencesUpdate"
    /\ Sched(p)
    /\ \E ok \in BOOLEAN :
         LET k == Cluster(p) IN
         IF ~ok \/ k \notin DOMAIN ccs
         THEN w' = [w EXCEPT ![p] = Fail(@)] /\ UNCHANGED ccs
         ELSE IF ~w[p].cur.fresh
         THEN /\ w' = [w EXCEPT ![p] = IF @.tries + 1 < MaxRetry
                                       THEN [@ EXCEPT !.tries = @ + 1, !.pc = "ownerReferencesGet"]
                                       ELSE Fail(@)]
              /\ UNCHANGED ccs
         ELSE /\ ccs' = [ccs EXCEPT ![k].owners = OwnerReferencesToWrite(w[p], p)]
              /\ w' = [Invalidate(w, k) EXCEPT ![p].pc = "resourcesGet", ![p].tries = 0]
    /\ UNCHANGED <<clusters, machines, profiles, summaries, reports, index, conc, envBudget>>

\* updateClusterConfigurationClusterProfileResources, outer closure: Get and
\* look for this profile's section
resourcesGet(p) ==
    /\ w[p].pc = "resourcesGet"
    /\ Sched(p)
    /\ \E ok \in BOOLEAN :
         LET k == Cluster(p) IN
         IF ~ok \/ k \notin DOMAIN ccs THEN w' = [w EXCEPT ![p] = Fail(@)]
         ELSE IF Contains(ccs[k].resources, p) THEN w' = [w EXCEPT ![p] = NextConfiguration(@)]
         ELSE w' = [w EXCEPT ![p].cur = CopyOf(k), ![p].inner = 0, ![p].pc = "resourcesGetInner"]
    /\ UNCHANGED <<api, index, conc, envBudget>>

\* nested closure: Get again
resourcesGetInner(p) == GetCurrent(p, "resourcesGetInner", "resourcesUpdate")

\* an append that adds the section twice
AppendTwice(resources, p) == Append(Append(resources, p), p)

\* append(Status.ClusterProfileResources, ClusterProfileResource{ClusterProfileName: p})
AppendSection(resources, p) == Append(resources, p)

\* nested closure: append the section (without looking for it again) and
\* Status().Update
resourcesUpdate(p) ==
    /\ w[p].pc = "resourcesUpdate"
    /\ Sched(p)
    /\ \E ok \in BOOLEAN :
         LET k == Cluster(p) IN
         IF ~ok \/ k \notin DOMAIN ccs
         THEN w' = [w EXCEPT ![p] = Fail(@)] /\ UNCHANGED ccs
         ELSE IF ~w[p].cur.fresh
         THEN /\ w' = [w EXCEPT ![p] =
                         IF @.inner + 1 < MaxRetry
                         THEN [@ EXCEPT !.inner = @ + 1, !.pc = "resourcesGetInner",
                                        !.conflicted = TRUE]
                         ELSE IF @.tries + 1 < MaxRetry
                         THEN [@ EXCEPT !.tries = @ + 1, !.inner = 0, !.pc = "resourcesGet",
                                        !.conflicted = TRUE]
                         ELSE [Fail(@) EXCEPT !.conflicted = TRUE]]
              /\ UNCHANGED ccs
         ELSE /\ ccs' = [ccs EXCEPT ![k].resources = AppendSection(w[p].cur.resources, p)]
              /\ w' = [Invalidate(w, k) EXCEPT ![p] = NextConfiguration(@)]
    /\ UNCHANGED <<clusters, machines, profiles, summaries, reports, index, conc, envBudget>>


(***************************************************************************)
(* ClusterReports                                                          *)
(***************************************************************************)
NewReport(p, k) ==
    [labels |-> [profile |-> p],
     spec |-> [clusterNamespace |-> k[1], clusterName |-> k[2]]]

\* createClusterReports over the first n matching clusters
RECURSIVE CreateReports(_, _, _, _)
CreateReports(rs, p, ms, n) ==
    IF n = 0 THEN rs
    ELSE LET k == ReportKey(p, Head(ms))
             created == IF k \in DOMAIN rs THEN rs ELSE Put(rs, k, NewReport(p, Head(ms)))
         IN CreateReports(created, p, Tail(ms), n - 1)

\* the ClusterReports a List with MatchingLabels{ClusterProfileLabelName: p} returns
ReportsOf(rs, p) == {k \in DOMAIN rs : rs[k].labels.profile = p}

\* cleanClusterReports: every listed report is deleted; with n < Len the n+1st
\* Delete failed
CleanReports(rs, p, n) ==
    LET listed == Filter(ReportOrder, ReportsOf(rs, p))
        gone == {listed[j] : j \in 1..n}
    IN [k \in DOMAIN rs \ gone |-> rs[k]]

\* where reconcileNormal / reconcileDelete go after the report step
AfterReports(wp) ==
    IF wp.path = "delete" THEN [wp EXCEPT !.pc = "canRemoveFinalizer"]
    ELSE IF wp.prof.matching = <<>> THEN [wp EXCEPT !.pc = "cleanClusterSummaries"]
    ELSE [wp EXCEPT !.pc = "updateClusterSummaries", !.i = 1]

\* updateClusterReports: create for every match in DryRun, delete all otherwise
updateClusterReports(p) ==
    /\ w[p].pc = "updateClusterReports"
    /\ Sched(p)
    /\ IF w[p].prof.syncMode = "DryRun"
       THEN \E n \in 0..Len(w[p].prof.matching) :
              /\ reports' = CreateReports(reports, p, w[p].prof.matching, n)
              /\ w' = [w EXCEPT ![p] = IF n = Len(w[p].prof.matching)
                                       THEN AfterReports(@) ELSE Fail(@)]
       ELSE \E n \in -1..Cardinality(ReportsOf(reports, p)) :
              /\ reports' = CleanReports(reports, p, IF n < 0 THEN 0 ELSE n)
              /\ w' = [w EXCEPT ![p] = IF n = Cardinality(ReportsOf(reports, p))
                                       THEN AfterReports(@) ELSE Fail(@)]
    /\ UNCHANGED <<clusters, machines, profiles, ccs, summaries, index, conc, envBudget>>

\* reconcileDelete: cleanClusterReports
cleanClusterReports(p) ==
    /\ w[p].pc = "cleanClusterReports"
    /\ Sched(p)
    /\ \E n \in -1..Cardinality(ReportsOf(reports, p)) :
         /\ reports' = CleanReports(reports, p, IF n < 0 THEN 0 ELSE n)
         /\ w' = [w EXCEPT ![p] = IF n = Cardinality(ReportsOf(reports, p))
                                  THEN AfterReports(@) ELSE Fail(@)]
    /\ UNCHANGED <<clusters, machines, profiles, ccs, summaries, index, conc, envBudget>>

(***************************************************************************)
(* ClusterSummaries                                                        *)
(***************************************************************************)
\* getMachinesForCluster: InNamespace + MatchingLabels{ClusterLabelName}
getMachinesForCluster(ms, k) == {m \in ms : m.ns = k[1] /\ m.cluster = k[2]}

\* isClusterReadyToBeConfigured without the phase test
anyControlPlaneMachine(ms, k) ==
    \E m \in getMachinesForCluster(ms, k) : m.cp

\* isClusterReadyToBeConfigured without the control-plane test
AnyMachineRunning(ms, k) ==
    \E m \in getMachinesForCluster(ms, k) : m.phase = "Running"

\* isClusterReadyToBeConfigured
isClusterReadyToBeConfigured(ms, k) ==
    \E m \in getMachinesForCluster(ms, k) : m.cp /\ m.phase = "Running"

ProfileSpec(prof) ==
    [selector |-> prof.selector, syncMode |-> prof.syncMode, payload |-> prof.payload]

\* createClusterSummary with a name that also depends on the sync mode
NewSummaryNamedByMode(p, prof, k) ==
    [namespace |-> k[1],
     name |-> GetClusterSummaryName(p, k[2]) \o "--" \o prof.syncMode,
     owners |-> <<p>>,
     labels |-> [profile |-> p, clusterNamespace |-> k[1], clusterName |-> k[2]],
     annotations |-> prof.annotations,
     spec |-> [clusterNamespace |-> k[1], clusterName |-> k[2],
               clusterProfileSpec |-> ProfileSpec(prof)],
     deleting |-> FALSE,
     finalizer |-> FALSE]

\* createClusterSummary with the two cluster labels taken for each other
NewSummaryLabelsSwapped(p, prof, k) ==
    [namespace |-> k[1],
     name |-> GetClusterSummaryName(p, k[2]),
     owners |-> <<p>>,
     labels |-> [profile |-> p, clusterNamespace |-> k[2], clusterName |-> k[1]],
     annotations |-> prof.annotations,
     spec |-> [clusterNamespace |-> k[1], clusterName |-> k[2],
               clusterProfileSpec |-> ProfileSpec(prof)],
     deleting |-> FALSE,
     finalizer |-> FALSE]

\* the object createClusterSummary builds
NewSummary(p, prof, k) ==
    [namespace |-> k[1],
     name |-> GetClusterSummaryName(p, k[2]),
     owners |-> <<p>>,
     labels |-> [profile |-> p, clusterNamespace |-> k[1], clusterName |-> k[2]],
     annotations |-> prof.annotations,
     spec |-> [clusterNamespace |-> k[1], clusterName |-> k[2],
               clusterProfileSpec |-> ProfileSpec(prof)],
     deleting |-> FALSE,
     finalizer |-> FALSE]

\* an update that leaves every summary as it is
keepSummary(s, prof) == s

\* updateClusterSummary without the OneTime test
updateClusterSummaryAnyMode(s, prof) ==
    IF ProfileSpec(prof) = s.spec.clusterProfileSpec /\ prof.annotations = s.annotations
    THEN s
    ELSE [s EXCEPT !.annotations = prof.annotations,
                   !.spec.clusterProfileSpec = ProfileSpec(prof)]

\* updateClusterSummary on an existing summary: nothing in OneTime mode, else
\* annotations and ClusterProfileSpec follow the profile
updateClusterSummary(s, prof) ==
    IF prof.syncMode = "OneTime" THEN s
    ELSE IF ProfileSpec(prof) = s.spec.clusterProfileSpec /\ prof.annotations = s.annotations
    THEN s
    ELSE [s EXCEPT !.annotations = prof.annotations,
                   !.spec.clusterProfileSpec = ProfileSpec(prof)]

NextSummary(wp) ==
    IF wp.i < Len(wp.prof.matching) THEN [wp EXCEPT !.i = @ + 1]
    ELSE [wp EXCEPT !.pc = "cleanClusterSummaries"]

\* one iteration of updateClusterSummaries.  fault: "read" fails the first
\* read (machines, summary), "write" fails the Create or the Update
updateClusterSummaries(p) ==
    /\ w[p].pc = "updateClusterSummaries"
    /\ Sched(p)
    /\ \E fault \in {"none", "read", "write"} :
         LET k == Cluster(p)
             sk == SummaryKey(p, k)
         IN
         IF fault = "read" THEN w' = [w EXCEPT ![p] = Fail(@)] /\ UNCHANGED summaries
         ELSE IF ~isClusterReadyToBeConfigured(machines, k)
         THEN w' = [w EXCEPT ![p] = NextSummary(@)] /\ UNCHANGED summaries
         ELSE IF sk \notin DOMAIN summaries
         THEN \* createClusterSummary: its error is logged and dropped
              IF fault = "write"
              THEN /\ w' = [w EXCEPT ![p] = NextSummary([@ EXCEPT !.createFailed = TRUE])]
                   /\ UNCHANGED summaries
              ELSE LET new == NewSummary(p, w[p].prof, k) IN
                   /\ summaries' = Put(summaries, <<new.namespace, new.name>>, new)
                   /\ w' = [w EXCEPT ![p] = NextSummary(@)]
         ELSE IF updateClusterSummary(summaries[sk], w[p].prof) = summaries[sk]
         THEN w' = [w EXCEPT ![p] = NextSummary(@)] /\ UNCHANGED summaries
         ELSE IF fault = "write"
         THEN w' = [w EXCEPT ![p] = Fail(@)] /\ UNCHANGED summaries
         ELSE /\ summaries' = [summaries EXCEPT ![sk] = updateClusterSummary(@, w[p].prof)]
              /\ w' = [w EXCEPT ![p] = NextSummary(@)]
    /\ UNCHANGED <<clusters, machines, profiles, ccs, reports, index, conc, envBudget>>

\* the map key of cleanClusterSummaries
getClusterInfo(clusterNamespace, clusterName) == clusterNamespace \o "-" \o clusterName

\* the ClusterSummaries a List with MatchingLabels{ClusterProfileLabelName: p} returns
SummariesOf(ss, p) == {k \in DOMAIN ss : ss[k].labels.profile = p}

\* cleanClusterSummaries: build the matching map and List
cleanClusterSummaries(p) ==
    /\ w[p].pc = "cleanClusterSummaries"
    /\ Sched(p)
    /\ \E ok \in BOOLEAN :
         IF ~ok THEN w' = [w EXCEPT ![p] = Fail(@)]
         ELSE w' = [w EXCEPT ![p].slist = Filter(SummaryOrder, SummariesOf(summaries, p)),
                             ![p].i = 1,
                             ![p].pc = "cleanClusterSummary"]
    /\ UNCHANGED <<api, index, conc, envBudget>>

\* r.Delete on an object: with a finalizer it is only marked for deletion
DeleteObject(store, k) ==
    IF store[k].finalizer THEN [store EXCEPT ![k].deleting = TRUE] ELSE Drop(store, k)

\* where the reconcile goes once the summary loop is over
AfterSummaries(wp) ==
    [wp EXCEPT !.slist = <<>>, !.i = 0,
               !.pc = IF wp.path = "delete" THEN "allClusterSummariesGone"
                      ELSE "cleanClusterConfigurations"]

\* whether cleanClusterSummaries keeps the summary: its cluster is in the map
StillMatching(matching, cs) ==
    getClusterInfo(cs.spec.clusterNamespace, cs.spec.clusterName)
        \in {getClusterInfo(m[1], m[2]) : m \in Range(matching)}

\* updateClusterSummarySyncMode that writes the summary back as read
keepSyncMode(prof, s) == s

\* updateClusterSummarySyncMode: the summary is read again and its SyncMode set
updateClusterSummarySyncMode(prof, s) ==
    [s EXCEPT !.spec.clusterProfileSpec.syncMode = prof.syncMode]

\* one iteration of the loop of cleanClusterSummaries: deleteClusterSummary for
\* a stale summary, then updateClusterSummarySyncMode in every case
cleanClusterSummary(p) ==
    /\ w[p].pc = "cleanClusterSummary"
    /\ Sched(p)
    /\ IF w[p].i > Len(w[p].slist)
       THEN w' = [w EXCEPT ![p] = AfterSummaries(@)] /\ UNCHANGED summaries
       ELSE \E fault \in {"none", "delete", "update"} :
              LET sk == w[p].slist[w[p].i]
                  cs == summaries[sk]
                  stale == ~StillMatching(w[p].prof.matching, cs)
                  afterDelete == IF stale THEN DeleteObject(summaries, sk) ELSE summaries
              IN
              IF ~IsOwnedByObject(cs.owners, p)
              THEN w' = [w EXCEPT ![p].i = @ + 1] /\ UNCHANGED summaries
              ELSE IF stale /\ fault = "delete"
              THEN w' = [w EXCEPT ![p] = Fail(@)] /\ UNCHANGED summaries
              ELSE IF sk \notin DOMAIN afterDelete \/ fault = "update"
              THEN \* updateClusterSummarySyncMode: the Get (or the Update) fails
                   /\ summaries' = afterDelete
                   /\ w' = [w EXCEPT ![p] = Fail(@)]
              ELSE /\ summaries' = [afterDelete EXCEPT
                          ![sk] = updateClusterSummarySyncMode(w[p].prof, @)]
                   /\ w' = [w EXCEPT ![p].i = @ + 1]
    /\ UNCHANGED <<clusters, machines, profiles, ccs, reports, index, conc, envBudget>>


(***************************************************************************)
(* Detach: cleanClusterConfigurations                                      *)
(***************************************************************************)
\* the map key of cleanClusterConfigurations
info(namespace, name) == namespace \o "--" \o name

\* cleanClusterConfigurations: build the matching map and List
cleanClusterConfigurations(p) ==
    /\ w[p].pc = "cleanClusterConfigurations"
    /\ Sched(p)
    /\ \E ok \in BOOLEAN :
         IF ~ok THEN w' = [w EXCEPT ![p] = Fail(@)]
         ELSE w' = [w EXCEPT ![p].list = [n \in 1..Len(Filter(ClusterOrder, DOMAIN ccs)) |->
                                            CopyOf(Filter(ClusterOrder, DOMAIN ccs)[n])],
                             ![p].i = 1,
                             ![p].pc = "cleanClusterConfiguration"]
    /\ UNCHANGED <<api, index, conc, envBudget>>

\* where the reconcile goes once the detach loop is over
AfterConfigurations(wp) ==
    IF wp.path = "delete"
    THEN [wp EXCEPT !.list = <<>>, !.cur = NoCopy, !.tries = 0, !.i = 0,
                    !.pc = "cleanClusterReports"]
    ELSE Leave(wp)

NextDetach(wp) == [wp EXCEPT !.i = @ + 1, !.pc = "cleanClusterConfiguration", !.tries = 0,
                             !.cur = NoCopy]

\* a test that takes every ClusterConfiguration for one to detach from
nothingStillMatching(matching, k) == FALSE

\* whether cleanClusterConfigurations skips the ClusterConfiguration
ConfigurationStillMatching(matching, k) ==
    info(k[1], k[2]) \in {info(m[1], m[2]) : m \in Range(matching)}

\* one iteration of the loop of cleanClusterConfigurations, up to the end of
\* cleanClusterConfigurationOwnerReferences: the listed copy is changed and
\* written back (Update) or deleted (Delete, which carries no precondition)
cleanClusterConfiguration(p) ==
    /\ w[p].pc = "cleanClusterConfiguration"
    /\ Sched(p)
    /\ IF w[p].i > Len(w[p].list)
       THEN w' = [w EXCEPT ![p] = AfterConfigurations(@)] /\ UNCHANGED ccs
       ELSE \E ok \in BOOLEAN :
              LET cc == w[p].list[w[p].i]
                  k == cc.key
                  owners == RemoveOwnerRef(cc.owners, p)
              IN
              IF ConfigurationStillMatching(w[p].prof.matching, k)
              THEN w' = [w EXCEPT ![p].i = @ + 1] /\ UNCHANGED ccs
              ELSE IF ~IsOwnedByObject(cc.owners, p)
              THEN w' = [w EXCEPT ![p].pc = "cleanResourcesGet", ![p].tries = 0] /\ UNCHANGED ccs
              ELSE IF ~ok \/ k \notin DOMAIN ccs
              THEN w' = [w EXCEPT ![p] = Fail(@)] /\ UNCHANGED ccs
              ELSE IF owners = <<>>
              THEN /\ ccs' = Drop(ccs, k)
                   /\ w' = [Invalidate(w, k) EXCEPT ![p].pc = "cleanResourcesGet", ![p].tries = 0]
              ELSE IF ~cc.fresh
              THEN w' = [w EXCEPT ![p] = [Fail(@) EXCEPT !.detachConflict = TRUE]]
                   /\ UNCHANGED ccs
              ELSE /\ ccs' = [ccs EXCEPT ![k].owners = owners]
                   /\ w' = [Invalidate(w, k) EXCEPT ![p].pc = "cleanResourcesGet", ![p].tries = 0]
    /\ UNCHANGED <<clusters, machines, profiles, summaries, reports, index, conc, envBudget>>

\* cleanClusterConfigurationClusterProfileResources, the Get of the retry
\* closure and the search for this profile's section
cleanResourcesGet(p) ==
    /\ w[p].pc = "cleanResourcesGet"
    /\ Sched(p)
    /\ \E ok \in BOOLEAN :
         LET k == w[p].list[w[p].i].key IN
         IF k \notin DOMAIN ccs THEN w' = [w EXCEPT ![p] = NextDetach(@)]
         ELSE IF ~ok THEN w' = [w EXCEPT ![p] = Fail(@)]
         ELSE IF ~Contains(ccs[k].resources, p) THEN w' = [w EXCEPT ![p] = NextDetach(@)]
         ELSE w' = [w EXCEPT ![p].cur = CopyOf(k), ![p].pc = "cleanResourcesUpdate"]
    /\ UNCHANGED <<api, index, conc, envBudget>>

\* the slice is cut without the swap
CutLast(resources, p) == SubSeq(resources, 1, Len(resources) - 1)

\* the section of profile p is overwritten by the last one and the slice cut
SwapRemove(resources, p) ==
    LET at == CHOOSE n \in 1..Len(resources) :
                  resources[n] = p /\ \A m \in 1..(n - 1) : resources[m] # p
        moved == [resources EXCEPT ![at] = resources[Len(resources)]]
    IN SubSeq(moved, 1, Len(resources) - 1)

\* cleanClusterConfigurationClusterProfileResources, the Status().Update
cleanResourcesUpdate(p) ==
    /\ w[p].pc = "cleanResourcesUpdate"
    /\ Sched(p)
    /\ \E ok \in BOOLEAN :
         LET k == w[p].cur.key IN
         IF ~ok \/ k \notin DOMAIN ccs
         THEN w' = [w EXCEPT ![p] = Fail(@)] /\ UNCHANGED ccs
         ELSE IF ~w[p].cur.fresh
         THEN /\ w' = [w EXCEPT ![p] = IF @.tries + 1 < MaxRetry
                                       THEN [@ EXCEPT !.tries = @ + 1, !.pc = "cleanResourcesGet"]
                                       ELSE Fail(@)]
              /\ UNCHANGED ccs
         ELSE /\ ccs' = [ccs EXCEPT ![k].resources = SwapRemove(w[p].cur.resources, p)]
              /\ w' = [Invalidate(w, k) EXCEPT ![p] = NextDetach(@)]
    /\ UNCHANGED <<clusters, machines, profiles, summaries, reports, index, conc, envBudget>>

(***************************************************************************)
(* Delete path                                                             *)
(***************************************************************************)
\* a reconcileDelete that also takes the profile out of the three maps
reconcileDeleteForgetting(p) ==
    /\ w[p].pc = "reconcileDelete"
    /\ Sched(p)
    /\ w' = [w EXCEPT ![p].prof.matching = <<>>, ![p].pc = "cleanClusterSummaries"]
    /\ ClusterMap' = [k \in DOMAIN ClusterMap |-> ClusterMap[k] \ {p}]
    /\ ClusterProfileMap' = Drop(ClusterProfileMap, p)
    /\ ClusterProfiles' = Drop(ClusterProfiles, p)
    /\ UNCHANGED <<api, conc, envBudget>>

\* reconcileDelete: SetMatchingClusterRefs(nil)
reconcileDelete(p) ==
    /\ w[p].pc = "reconcileDelete"
    /\ Sched(p)
    /\ w' = [w EXCEPT ![p].prof.matching = <<>>, ![p].pc = "cleanClusterSummaries"]
    /\ UNCHANGED <<api, index, conc, envBudget>>

\* allClusterSummariesGone that always answers yes
alwaysGone(ss, p, listed) == TRUE

\* allClusterSummariesGone with the length test inverted
someClusterSummaryLeft(ss, p, listed) == listed /\ SummariesOf(ss, p) # {}

\* allClusterSummariesGone that takes a failed List for an empty one
goneUnlessListed(ss, p, listed) == ~listed \/ SummariesOf(ss, p) = {}

\* allClusterSummariesGone: a failed List counts as "not gone"
allClusterSummariesGone(ss, p, listed) == listed /\ SummariesOf(ss, p) = {}

\* a drain check of reconcileDelete at position `at`; `to` follows when it passes
DrainCheck(p, at, to) ==
    /\ w[p].pc = at
    /\ Sched(p)
    /\ \E listed \in BOOLEAN :
         LET short == ~listed \/ SummariesOf(summaries, p) # {} IN
         IF allClusterSummariesGone(summaries, p, listed)
         THEN w' = [w EXCEPT ![p].drainChecks = @ + 1, ![p].pc = to,
                             ![p].drainFalse = @ \/ short]
         ELSE w' = [w EXCEPT ![p] = Leave([@ EXCEPT !.drainFalse = @ \/ short,
                                                    !.requeueAfter = TRUE])]
    /\ UNCHANGED <<api, index, conc, envBudget>>

\* reconcileDelete: the check after cleanClusterSummaries
checkSummariesGone(p) ==
    DrainCheck(p, "allClusterSummariesGone", "cleanClusterConfigurations")

\* reconcileDelete: canRemoveFinalizer, then RemoveFinalizer on the local object
canRemoveFinalizer(p) == DrainCheck(p, "canRemoveFinalizer", "RemoveFinalizer")

RemoveFinalizer(p) ==
    /\ w[p].pc = "RemoveFinalizer"
    /\ Sched(p)
    /\ w' = [w EXCEPT ![p] = Leave([@ EXCEPT !.prof.finalizer = FALSE])]
    /\ UNCHANGED <<api, index, conc, envBudget>>

\* the deferred clusterProfileScope.Close: the local object is patched back; a
\* profile marked for deletion goes away with its last finalizer.  The patch
\* helper is an external collaborator and is taken to persist the object.
Close(p) ==
    /\ w[p].pc = "Close"
    /\ Sched(p)
    /\ profiles' = IF profiles[p].deleting /\ ~w[p].prof.finalizer THEN Drop(profiles, p)
                   ELSE [profiles EXCEPT ![p].finalizer = w[p].prof.finalizer,
                                         ![p].matching = w[p].prof.matching]
    /\ w' = [w EXCEPT ![p].pc = "done"]
    /\ UNCHANGED <<clusters, machines, ccs, summaries, reports, index, conc, envBudget>>

\* Reconcile has returned; the worker is free for the next request
Return(p) ==
    /\ w[p].pc = "done"
    /\ Sched(p)
    /\ w' = [w EXCEPT ![p] = IdleW]
    /\ UNCHANGED <<api, index, conc, envBudget>>


\* The work queue hands the key of p to Reconcile again as soon as a successful
\* normal reconcile has returned: nothing changes between the two runs.
Rerun(p) ==
    /\ w[p].pc = "done"
    /\ Sched(p)
    /\ w[p].path = "normal"
    /\ ~w[p].err
    /\ w[p].prev = "none"
    /\ p \in DOMAIN profiles
    /\ ~profiles[p].deleting
    /\ w' = [w EXCEPT ![p] =
                [IdleW EXCEPT
                    !.prof = profiles[p],
                    !.path = "normal",
                    !.pc = IF profiles[p].finalizer THEN "getMatchingClusters"
                           ELSE "addFinalizer",
                    !.prev = IF w[p].createFailed THEN "createFailed" ELSE "succeeded"]]
    /\ UNCHANGED <<api, index, conc, envBudget>>


(***************************************************************************)
(* The world around the reconciler: users, CAPI, the ClusterSummary        *)
(* controller.  External changes happen between reconciles.                *)
(***************************************************************************)
AllIdle == \A p \in Profiles : Idle(p)

External == AllIdle /\ envBudget > 0 /\ envBudget' = envBudget - 1

\* the labels of a Cluster change
ClusterLabelsChange(k) ==
    /\ External
    /\ k \in DOMAIN clusters
    /\ \E l \in LabelSets \ {clusters[k].labels} :
         clusters' = [clusters EXCEPT ![k].labels = l]
    /\ UNCHANGED <<machines, profiles, ccs, summaries, reports, index, w, conc>>

\* a Cluster gets a deletion timestamp
ClusterDelete(k) ==
    /\ External
    /\ k \in DOMAIN clusters
    /\ ~clusters[k].deleting
    /\ clusters' = [clusters EXCEPT ![k].deleting = TRUE]
    /\ UNCHANGED <<machines, profiles, ccs, summaries, reports, index, w, conc>>

\* the Machines of a Cluster change
MachinesChange(k) ==
    /\ External
    /\ k \in DOMAIN clusters
    /\ \E cfg \in MachineConfigs :
         /\ MachinesOf(k, cfg) # getMachinesForCluster(machines, k)
         /\ machines' = (machines \ getMachinesForCluster(machines, k)) \cup MachinesOf(k, cfg)
    /\ UNCHANGED <<clusters, profiles, ccs, summaries, reports, index, w, conc>>

\* the user edits one field of a ClusterProfile
ProfileEdits(prof) ==
    {[prof EXCEPT !.selector = x] : x \in Selectors \ {prof.selector}}
    \cup {[prof EXCEPT !.syncMode = x] : x \in SyncModes \ {prof.syncMode}}
    \cup {[prof EXCEPT !.payload = x] : x \in Payloads \ {prof.payload}}
    \cup {[prof EXCEPT !.annotations = x] : x \in AnnotationSets \ {prof.annotations}}

ProfileUpdate(p) ==
    /\ External
    /\ p \in DOMAIN profiles
    /\ ~profiles[p].deleting
    /\ \E new \in ProfileEdits(profiles[p]) : profiles' = [profiles EXCEPT ![p] = new]
    /\ UNCHANGED <<clusters, machines, ccs, summaries, reports, index, w, conc>>

\* the user changes the selector of a ClusterProfile
ProfileSelectorChange(p) ==
    /\ External
    /\ p \in DOMAIN profiles
    /\ ~profiles[p].deleting
    /\ \E sel \in {SelProd, SelDev} \ {profiles[p].selector} :
         profiles' = [profiles EXCEPT ![p].selector = sel]
    /\ UNCHANGED <<clusters, machines, ccs, summaries, reports, index, w, conc>>

\* the user deletes a ClusterProfile: with the finalizer it is only marked
ProfileDelete(p) ==
    /\ External
    /\ p \in DOMAIN profiles
    /\ ~profiles[p].deleting
    /\ profiles' = IF profiles[p].finalizer THEN [profiles EXCEPT ![p].deleting = TRUE]
                   ELSE Drop(profiles, p)
    /\ UNCHANGED <<clusters, machines, ccs, summaries, reports, index, w, conc>>

\* the ClusterSummary controller puts its finalizer on a summary
SummaryFinalizerAdd(sk) ==
    /\ AllIdle
    /\ sk \in DOMAIN summaries
    /\ ~summaries[sk].finalizer
    /\ ~summaries[sk].deleting
    /\ summaries' = [summaries EXCEPT ![sk].finalizer = TRUE]
    /\ UNCHANGED <<clusters, machines, profiles, ccs, reports, index, w, conc, envBudget>>

\* the ClusterSummary controller has undeployed and releases a summary marked
\* for deletion
SummaryFinalizerRemove(sk) ==
    /\ AllIdle
    /\ sk \in DOMAIN summaries
    /\ summaries[sk].deleting
    /\ summaries' = Drop(summaries, sk)
    /\ UNCHANGED <<clusters, machines, profiles, ccs, reports, index, w, conc, envBudget>>

(***************************************************************************)
(* Specifications                                                          *)
(***************************************************************************)
Worker(p) ==
    \/ Reconcile(p)
    \/ addFinalizer(p)
    \/ getMatchingClusters(p)
    \/ updatesMaps(p)
    \/ createClusterConfiguration(p)
    \/ updateClusterConfiguration(p)
    \/ ownerReferencesGet(p)
    \/ ownerReferencesUpdate(p)
    \/ resourcesGet(p)
    \/ resourcesGetInner(p)
    \/ resourcesUpdate(p)
    \/ updateClusterReports(p)
    \/ updateClusterSummaries(p)
    \/ cleanClusterSummaries(p)
    \/ cleanClusterSummary(p)
    \/ cleanClusterConfigurations(p)
    \/ cleanClusterConfiguration(p)
    \/ cleanResourcesGet(p)
    \/ cleanResourcesUpdate(p)
    \/ reconcileDelete(p)
    \/ checkSummariesGone(p)
    \/ cleanClusterReports(p)
    \/ canRemoveFinalizer(p)
    \/ RemoveFinalizer(p)
    \/ Close(p)
    \/ Return(p)

World(ps) ==
    \/ \E k \in ClusterKeys : ClusterLabelsChange(k)
    \/ \E k \in ClusterKeys : ClusterDelete(k)
    \/ \E k \in ClusterKeys : MachinesChange(k)
    \/ \E p \in ps : ProfileUpdate(p)
    \/ \E p \in ps : ProfileDelete(p)
    \/ \E sk \in Range(SummaryOrder) : SummaryFinalizerAdd(sk)
    \/ \E sk \in Range(SummaryOrder) : SummaryFinalizerRemove(sk)

\* the reconciles of p1 under every external change
Next == Worker("p1") \/ World({"p1"})

Spec == Init /\ [][Next]_vars

\* both profiles reconcile; users change their selectors or delete them
NextConc ==
    \/ \E p \in Profiles : Worker(p)
    \/ \E p \in Profiles : ProfileSelectorChange(p)
    \/ \E p \in Profiles : ProfileDelete(p)

SpecConc == InitConc /\ [][NextConc]_vars

\* Profile p1, co-owner with the settled profile p3 of the ClusterConfiguration
\* of the one cluster, is marked for deletion; profile p2 is new and selects
\* the same cluster; the reconciles of p1 and p2 interleave.
InitConcDelete ==
    /\ conc = TRUE
    /\ clusters = (Cluster1 :> NewCluster([env |-> "prod"]))
    /\ machines = MachinesOf(Cluster1, "cpRunning")
    /\ \E mode \in {"Continuous", "DryRun"} :
         profiles = ("p1" :> [SettledProfile EXCEPT !.deleting = TRUE, !.syncMode = mode])
                    @@ ("p2" :> NewProfile(SelProd, "Continuous"))
                    @@ ("p3" :> SettledProfile)
    /\ ccs = (Cluster1 :> [owners |-> <<"p3", "p1">>, resources |-> <<"p3", "p1">>])
    /\ summaries = <<>>
    /\ reports = <<>>
    /\ ClusterMap = (Cluster1 :> {"p1", "p3"})
    /\ ClusterProfileMap = ("p1" :> {Cluster1}) @@ ("p3" :> {Cluster1})
    /\ ClusterProfiles = ("p1" :> SelProd) @@ ("p3" :> SelProd)
    /\ w = [p \in Profiles |-> IdleW]
    /\ envBudget = 0

NextConcDelete == \E p \in Profiles : Worker(p)

SpecConcDelete == InitConcDelete /\ [][NextConcDelete]_vars

\* One reconcile at a time, the only external change being the deletion of p1;
\* the ClusterSummary controller adds and releases its finalizers.
InitLive ==
    /\ conc = FALSE
    /\ clusters = (Cluster1 :> NewCluster([env |-> "prod"])) @@ (Cluster2 :> NewCluster([env |-> "dev"]))
    /\ machines = MachinesOf(Cluster1, "cpRunning") \cup MachinesOf(Cluster2, "cpRunning")
    /\ \E sel \in {SelProd, SelDev}, mode \in SyncModes :
         profiles = ("p1" :> NewProfile(sel, mode)) @@ ("p2" :> SettledProfile)
    /\ InitSettled
    /\ w = [p \in Profiles |-> IdleW]
    /\ envBudget = MaxEnvChanges - 1

NextLive ==
    \/ Worker("p1")
    \/ ProfileDelete("p1")
    \/ \E sk \in Range(SummaryOrder) : SummaryFinalizerAdd(sk)
    \/ \E sk \in Range(SummaryOrder) : SummaryFinalizerRemove(sk)

\* the longest list a reconcile walks through
MaxItems == Cardinality({Cluster1, Cluster2})

\* a step of the delete reconcile of p, at item n of its loop, in which the API
\* call succeeds and the reconcile goes on
Succeeds(p, n) ==
    /\ w[p].path = "delete"
    /\ w[p].i = n
    /\ ~w'[p].err
    /\ ~w'[p].requeueAfter

\* The work queue runs a profile marked for deletion again after an error and
\* after requeue-after; a started reconcile runs on; every API call of the
\* delete path, on every object, succeeds in the end when it is tried again and
\* again.
FairDelete ==
    /\ WF_vars(Reconcile("p1") /\ profiles["p1"].deleting)
    /\ WF_vars(Worker("p1") /\ ~Idle("p1"))
    /\ SF_vars(cleanClusterSummaries("p1") /\ Succeeds("p1", 0))
    /\ SF_vars(checkSummariesGone("p1") /\ Succeeds("p1", 0))
    /\ SF_vars(cleanClusterConfigurations("p1") /\ Succeeds("p1", 0))
    /\ SF_vars(cleanClusterReports("p1") /\ Succeeds("p1", 0))
    /\ SF_vars(canRemoveFinalizer("p1") /\ Succeeds("p1", 0))
    /\ \A n \in 1..MaxItems :
         /\ SF_vars(cleanClusterSummary("p1") /\ Succeeds("p1", n))
         /\ SF_vars(cleanClusterConfiguration("p1") /\ Succeeds("p1", n))
         /\ SF_vars(cleanResourcesGet("p1") /\ Succeeds("p1", n))
         /\ SF_vars(cleanResourcesUpdate("p1") /\ Succeeds("p1", n))

SpecLive == InitLive /\ [][NextLive]_vars /\ FairDelete

\* A new profile p1 beside the settled profile p2; the two clusters have
\* namespaces and names that give one string when joined by a hyphen.  One
\* reconcile at a time; cluster labels change, p1 is deleted.
ClusterAB == <<"a-b", "c">>
ClusterBC == <<"a", "b-c">>

InitKeys ==
    /\ conc = FALSE
    /\ clusters = (ClusterAB :> NewCluster([env |-> "prod"])) @@ (ClusterBC :> NewCluster([env |-> "prod"]))
    /\ machines = MachinesOf(ClusterAB, "cpRunning") \cup MachinesOf(ClusterBC, "cpRunning")
    /\ \E mode \in SyncModes :
         profiles = ("p1" :> NewProfile(SelProd, mode)) @@ ("p2" :> SettledProfile)
    /\ InitSettled
    /\ w = [p \in Profiles |-> IdleW]
    /\ envBudget = MaxEnvChanges - 1

NextKeys ==
    \/ Worker("p1")
    \/ \E k \in ClusterKeys : ClusterLabelsChange(k)
    \/ ProfileDelete("p1")

SpecKeys == InitKeys /\ [][NextKeys]_vars

(***************************************************************************)
(* The work queue: a key is added by an event or by a run that returned an *)
(* error or a requeue-after, and taken when its reconcile starts.          *)
(***************************************************************************)
Enqueue(ww, ps) ==
    [q \in DOMAIN ww |-> IF q \in ps THEN [ww[q] EXCEPT !.queued = TRUE] ELSE ww[q]]

\* the dispatcher hands a queued key to Reconcile
Dequeue(p) == w[p].queued /\ Reconcile(p)

\* Reconcile has returned: the key goes back to the queue on error or
\* requeue-after
Finish(p) ==
    /\ w[p].pc = "done"
    /\ Sched(p)
    /\ w' = [w EXCEPT ![p] = [IdleW EXCEPT !.queued = w[p].err \/ w[p].requeueAfter]]
    /\ UNCHANGED <<api, index, conc, envBudget>>

\* The MapFunc of the Machine watch: the machine is mapped to its cluster and
\* the cluster event mapper is asked with the labels the cluster carries.
requeueClusterProfileForMachine(k) ==
    requeueClusterProfileForCluster(k, clusters[k].labels)

\* the machines of a cluster change and the event enqueues the profiles
MachineEvent(k) ==
    /\ External
    /\ k \in DOMAIN clusters
    /\ \E cfg \in MachineConfigs :
         /\ MachinesOf(k, cfg) # getMachinesForCluster(machines, k)
         /\ machines' = (machines \ getMachinesForCluster(machines, k)) \cup MachinesOf(k, cfg)
    /\ w' = Enqueue(w, requeueClusterProfileForMachine(k))
    /\ UNCHANGED <<clusters, profiles, ccs, summaries, reports, index, conc>>

\* the labels of a cluster change and the event enqueues the profiles
ClusterEvent(k) ==
    /\ External
    /\ k \in DOMAIN clusters
    /\ \E l \in LabelSets \ {clusters[k].labels} :
         /\ clusters' = [clusters EXCEPT ![k].labels = l]
         /\ w' = Enqueue(w, requeueClusterProfileForCluster(k, l))
    /\ UNCHANGED <<machines, profiles, ccs, summaries, reports, index, conc>>

\* the steps of reconcileNormal and the deferred Close
NormalSteps(p) ==
    \/ addFinalizer(p)
    \/ getMatchingClusters(p)
    \/ updatesMaps(p)
    \/ createClusterConfiguration(p)
    \/ updateClusterConfiguration(p)
    \/ ownerReferencesGet(p)
    \/ ownerReferencesUpdate(p)
    \/ resourcesGet(p)
    \/ resourcesGetInner(p)
    \/ resourcesUpdate(p)
    \/ updateClusterReports(p)
    \/ updateClusterSummaries(p)
    \/ cleanClusterSummaries(p)
    \/ cleanClusterSummary(p)
    \/ cleanClusterConfigurations(p)
    \/ cleanClusterConfiguration(p)
    \/ cleanResourcesGet(p)
    \/ cleanResourcesUpdate(p)
    \/ Close(p)

\* A new profile p1, its key in the queue, beside the settled profile p2; the
\* one cluster they select has no running control-plane machine yet.
InitReady ==
    /\ conc = FALSE
    /\ clusters = (Cluster1 :> NewCluster([env |-> "prod"]))
    /\ machines = MachinesOf(Cluster1, "cpProvisioning")
    /\ \E mode \in SyncModes :
         profiles = ("p1" :> NewProfile(SelProd, mode)) @@ ("p2" :> SettledProfile)
    /\ InitSettled
    /\ w = Enqueue([p \in Profiles |-> IdleW], {"p1"})
    /\ envBudget = MaxEnvChanges

NextReady ==
    \/ Dequeue("p1")
    \/ NormalSteps("p1")
    \/ Finish("p1")
    \/ \E k \in ClusterKeys : MachineEvent(k)
    \/ \E k \in ClusterKeys : ClusterEvent(k)

\* a queued key is handed out and a running reconcile goes on
FairReady ==
    /\ WF_vars(Dequeue("p1"))
    /\ WF_vars(NormalSteps("p1") \/ Finish("p1"))

SpecReady == InitReady /\ [][NextReady]_vars /\ FairReady

\* Two new profiles and two clusters; the reconciles of the profiles
\* interleave, their refreshes of the index run statement by statement, an
\* event mapper reads the index, and selectors and labels change.
InitIndex ==
    /\ conc = TRUE
    /\ clusters = (Cluster1 :> NewCluster([env |-> "prod"])) @@ (Cluster2 :> NewCluster([env |-> "dev"]))
    /\ machines = MachinesOf(Cluster1, "cpRunning") \cup MachinesOf(Cluster2, "cpRunning")
    /\ \E sel \in {SelProd, SelDev} :
         profiles = ("p1" :> NewProfile(SelProd, "Continuous"))
                    @@ ("p2" :> NewProfile(sel, "Continuous"))
    /\ InitFresh
    /\ w = [p \in Profiles \cup {"mapper"} |-> IdleW]
    /\ envBudget = MaxEnvChanges

\* the API server cannot be reached once the index is refreshed: the first
\* call of the fan-out fails and the reconcile returns its error
FailAfterRefresh(p) ==
    /\ createClusterConfiguration(p) \/ updateClusterReports(p)
    /\ w'[p].err

NextIndex ==
    \/ \E p \in Profiles : Reconcile(p)
    \/ \E p \in Profiles : addFinalizer(p)
    \/ \E p \in Profiles : getMatchingClusters(p)
    \/ \E p \in Profiles : Lock(p)
    \/ \E p \in Profiles : insert(p)
    \/ \E p \in Profiles : erase(p)
    \/ \E p \in Profiles : storeClusterProfileMap(p)
    \/ \E p \in Profiles : Unlock(p)
    \/ \E p \in Profiles : FailAfterRefresh(p)
    \/ \E p \in Profiles : Close(p)
    \/ \E p \in Profiles : Return(p)
    \/ MapperRead
    \/ \E p \in Profiles : ProfileSelectorChange(p)
    \/ \E k \in ClusterKeys : ClusterLabelsChange(k)

SpecIndex == InitIndex /\ [][NextIndex]_vars

\* every order in which the profiles of S can stand in a list
Orders(S) == {s \in [1..Cardinality(S) -> S] : Range(s) = S}

\* The ClusterConfiguration of the one cluster is owned by any of p1, p2, p3,
\* in any order; their sections stand in any order too, and a profile may own
\* without a section, or have a section without owning, as reconciles that
\* failed half-way leave it.  p1 is either one of these profiles, at rest, or
\* a new profile.  The cluster has no running control-plane machine yet, so no
\* ClusterSummary exists.
InitSwap ==
    /\ conc = FALSE
    /\ clusters = (Cluster1 :> NewCluster([env |-> "prod"]))
    /\ machines = MachinesOf(Cluster1, "cpProvisioning")
    /\ \E S \in SUBSET {"p1", "p2", "p3"}, T \in SUBSET {"p1", "p2", "p3"} :
         /\ S # {}
         /\ profiles = [q \in S \cup T \cup {"p1"} |->
                          IF q \in S \cup T THEN SettledProfile
                          ELSE NewProfile(SelProd, "Continuous")]
         /\ \E owners \in Orders(S), resources \in Orders(T) :
              ccs = (Cluster1 :> [owners |-> owners, resources |-> resources])
         /\ ClusterMap = (Cluster1 :> (S \cup T))
         /\ ClusterProfileMap = [q \in S \cup T |-> {Cluster1}]
         /\ ClusterProfiles = [q \in S \cup T |-> SelProd]
    /\ summaries = <<>>
    /\ reports = <<>>
    /\ w = [p \in Profiles |-> IdleW]
    /\ envBudget = MaxEnvChanges - 1

NextSwap ==
    \/ Worker("p1")
    \/ ProfileSelectorChange("p1")
    \/ ProfileDelete("p1")
    \/ MachinesChange(Cluster1)

SpecSwap == InitSwap /\ [][NextSwap]_vars

\* the reconciles of p1, each successful normal one followed at once by a second
\* run, under every external change
NextTwice == Worker("p1") \/ Rerun("p1") \/ World({"p1"})

SpecTwice == InitLive /\ [][NextTwice]_vars

(***************************************************************************)
(* Properties                                                              *)
(***************************************************************************)
\* Reconcile of profile p has returned from the normal path without error and
\* nothing has happened since
Succeeded(p) ==
    /\ p \in DOMAIN profiles
    /\ w[p].pc = "done"
    /\ w[p].path = "normal"
    /\ ~w[p].err

\* the match set recorded in the status of profile p
MatchSet(p) == Range(profiles[p].matching)

Owners(k) == Range(ccs[k].owners)

\* C1: at quiescence (every existing profile is not being deleted and has
\* completed a normal reconcile after the last change) the owners of every
\* ClusterConfiguration are exactly the profiles whose match set holds its
\* cluster.
OwnershipCoherence ==
    (\A p \in DOMAIN profiles : ~profiles[p].deleting /\ Succeeded(p))
        => \A k \in DOMAIN ccs : Owners(k) = {p \in DOMAIN profiles : k \in MatchSet(p)}

\* C2: a ClusterConfiguration is deleted only when its last owner departs: when
\* one profile has stopped matching the cluster and another one matches it, and
\* both reconciles have returned success, the ClusterConfiguration exists and
\* lists the matching profile as owner.
DeletedOnlyWithLastOwner ==
    \A p, q \in Profiles :
        (/\ p # q
         /\ Succeeded(p) /\ Succeeded(q)
         /\ Cluster1 \notin MatchSet(p)
         /\ Cluster1 \in MatchSet(q))
            => Cluster1 \in DOMAIN ccs /\ q \in Owners(Cluster1)

\* C3: when two profiles that both match a cluster are reconciled concurrently
\* and both reconciles return success, the ClusterConfiguration of the cluster
\* lists both as owners.
NoOwnerReferenceLost ==
    (/\ Succeeded("p1") /\ Succeeded("p2")
     /\ Cluster1 \in MatchSet("p1")
     /\ Cluster1 \in MatchSet("p2"))
        => Cluster1 \in DOMAIN ccs /\ {"p1", "p2"} \subseteq Owners(Cluster1)

\* a label set satisfies a selector: every requirement is a well-formed
\* equality or inequality and holds of the labels
Satisfies(selector, labels) ==
    \A i \in 1..Len(selector) :
        LET key == selector[i][1]
            op == selector[i][2]
            value == selector[i][3]
            has == key \in DOMAIN labels
        IN \/ op \in {"=", "=="} /\ has /\ labels[key] = value
           \/ op = "!=" /\ (has => labels[key] # value)

Ready(k) ==
    \E m \in machines : m.ns = k[1] /\ m.cluster = k[2] /\ m.cp /\ m.phase = "Running"

\* the summary of (p, k) exists and is not marked for deletion
HasSummary(p, k) ==
    /\ SummaryKey(p, k) \in DOMAIN summaries
    /\ ~summaries[SummaryKey(p, k)].deleting

\* the summaries that belong to the pair (p, k)
SummariesFor(p, k) ==
    {sk \in DOMAIN summaries :
        /\ summaries[sk].labels.profile = p
        /\ summaries[sk].spec.clusterNamespace = k[1]
        /\ summaries[sk].spec.clusterName = k[2]}

\* C5 as stated: after a successful normal reconcile of p1 (no Create having
\* failed), the summary of (p1, C) exists if and only if C is in the match set
\* and ready.
SummaryIffMatchedAndReady ==
    (Succeeded("p1") /\ ~w["p1"].createFailed) =>
        \A k \in DOMAIN clusters :
            HasSummary("p1", k) <=> (k \in MatchSet("p1") /\ Ready(k))

\* C5, amended: a summary of p1 comes into existence only for a cluster that
\* is, in that reconcile, in the match set and ready; and a reconcile of p1
\* neither deletes nor marks for deletion the summary of a cluster in its match
\* set, ready or not.
SummaryCreatedWhenReadyKeptWhileMatched ==
    [][\A k \in ClusterKeys :
        LET sk == SummaryKey("p1", k) IN
        /\ (sk \notin DOMAIN summaries /\ sk \in DOMAIN summaries')
              => /\ ~Idle("p1")
                 /\ k \in Range(w["p1"].prof.matching)
                 /\ k \in DOMAIN clusters
                 /\ ~clusters[k].deleting
                 /\ Ready(k)
        /\ (/\ ~Idle("p1")
            /\ w["p1"].path = "normal"
            /\ k \in Range(w["p1"].prof.matching)
            /\ sk \in DOMAIN summaries)
              => /\ sk \in DOMAIN summaries'
                 /\ summaries'[sk].deleting = summaries[sk].deleting]_vars

\* a successful reconcile has left the summary of a matched cluster that is
\* not ready
SummaryKeptWhileNotReady ==
    /\ Succeeded("p1")
    /\ \E k \in MatchSet("p1") : ~Ready(k) /\ HasSummary("p1", k)

\* C6 as stated: at most one summary per (profile, cluster) pair, and after a
\* successful normal reconcile of p1 (no Create having failed) exactly one, with
\* the deterministic name and in the namespace of the cluster, for every
\* cluster of the match set.
ExactlyOneSummaryPerMatch ==
    /\ \A k \in ClusterKeys : Cardinality(SummariesFor("p1", k)) <= 1
    /\ (Succeeded("p1") /\ ~w["p1"].createFailed) =>
          \A k \in MatchSet("p1") : SummariesFor("p1", k) = {SummaryKey("p1", k)}

\* C6, amended: in every state there is at most one summary per (profile,
\* cluster) pair, and every summary carries the deterministic name of its pair
\* and lives in the namespace of its cluster.
AtMostOneSummaryPerPair ==
    /\ \A k \in ClusterKeys : Cardinality(SummariesFor("p1", k)) <= 1
    /\ \A sk \in DOMAIN summaries :
         LET cs == summaries[sk] IN
         /\ sk = <<cs.namespace, cs.name>>
         /\ cs.namespace = cs.spec.clusterNamespace
         /\ cs.name = GetClusterSummaryName(cs.labels.profile, cs.spec.clusterName)

\* after a successful reconcile one matched cluster has its summary and
\* another matched cluster, not ready, has none
OneSummaryAndOneMissing ==
    /\ Succeeded("p1")
    /\ \E k \in MatchSet("p1") : SummariesFor("p1", k) = {SummaryKey("p1", k)}
    /\ \E k \in MatchSet("p1") : ~Ready(k) /\ SummariesFor("p1", k) = {}

\* C7: after a successful normal reconcile of p1 the report of (p1, C) exists if
\* and only if the profile is in DryRun mode and C is in the match set.
ReportIffDryRunAndMatched ==
    Succeeded("p1") =>
        \A k \in ClusterKeys :
            ReportKey("p1", k) \in DOMAIN reports
                <=> (profiles["p1"].syncMode = "DryRun" /\ k \in MatchSet("p1"))

\* C8: while a reconcile of p1 runs in OneTime mode, a summary of p1 that
\* records OneTime mode (it was created in that mode and the profile has stayed
\* in it) keeps its spec and its annotations, whatever the profile says now.
OneTimeFreeze ==
    [][\A sk \in DOMAIN summaries \cap DOMAIN summaries' :
        (/\ ~Idle("p1")
         /\ w["p1"].prof.syncMode = "OneTime"
         /\ summaries[sk].labels.profile = "p1"
         /\ summaries[sk].spec.clusterProfileSpec.syncMode = "OneTime")
            => /\ summaries'[sk].spec = summaries[sk].spec
               /\ summaries'[sk].annotations = summaries[sk].annotations]_vars

\* a successful reconcile in OneTime mode has passed over a summary whose
\* payload or annotations differ from the profile's
OneTimeSummaryBehindProfile ==
    /\ Succeeded("p1")
    /\ profiles["p1"].syncMode = "OneTime"
    /\ \E k \in MatchSet("p1") :
         /\ Ready(k)
         /\ HasSummary("p1", k)
         /\ LET cs == summaries[SummaryKey("p1", k)] IN
            /\ cs.spec.clusterProfileSpec.syncMode = "OneTime"
            /\ \/ cs.spec.clusterProfileSpec.payload # profiles["p1"].payload
               \/ cs.annotations # profiles["p1"].annotations

\* C9: after a successful normal reconcile of p1 every summary owned by p1 that
\* still exists records the sync mode of the profile, in every mode and also
\* for matched clusters that are not ready.
SyncModePropagated ==
    Succeeded("p1") =>
        \A sk \in DOMAIN summaries :
            (summaries[sk].labels.profile = "p1" /\ Contains(summaries[sk].owners, "p1"))
                => summaries[sk].spec.clusterProfileSpec.syncMode = profiles["p1"].syncMode

\* a successful reconcile has left the summary of a matched cluster that is
\* not ready behind the profile in its annotations, and equal in sync mode
SyncModeOfSkippedSummary ==
    /\ Succeeded("p1")
    /\ \E k \in MatchSet("p1") :
         /\ ~Ready(k)
         /\ SummaryKey("p1", k) \in DOMAIN summaries
         /\ LET cs == summaries[SummaryKey("p1", k)] IN
            /\ cs.annotations # profiles["p1"].annotations
            /\ cs.spec.clusterProfileSpec.syncMode = profiles["p1"].syncMode

Released(p) == p \notin DOMAIN profiles

\* C11: once deletion of p1 is requested and no ClusterSummary labelled p1 is
\* left, the finalizer is released in the end; and the finalizer is released
\* only when no ClusterSummary labelled p1 is left, so a summary held by a
\* downstream finalizer keeps it in place.
FinalizerLiveness ==
    /\ (("p1" \in DOMAIN profiles /\ profiles["p1"].deleting
            /\ SummariesOf(summaries, "p1") = {}) ~> Released("p1"))
    /\ [](Released("p1") => SummariesOf(summaries, "p1") = {})

\* a delete reconcile of p1 has passed both drain checks and released the
\* finalizer
ReleasedAfterDrain ==
    /\ Released("p1")
    /\ w["p1"].pc = "done"
    /\ w["p1"].path = "delete"
    /\ w["p1"].drainChecks = 2

\* C12: in the state in which the delete path removes the finalizer of a
\* profile, no ClusterConfiguration lists the profile as owner or holds a status
\* block for it, no ClusterReport labelled with it exists, and its
\* status.MatchingClusterRefs is empty.
NoDanglingOnRelease ==
    \A p \in Profiles :
        w[p].pc = "RemoveFinalizer" =>
            /\ \A k \in DOMAIN ccs :
                 ~Contains(ccs[k].owners, p) /\ ~Contains(ccs[k].resources, p)
            /\ ReportsOf(reports, p) = {}
            /\ w[p].prof.matching = <<>>

Detaching(p, k) ==
    /\ w[p].pc \in {"cleanClusterConfiguration", "cleanResourcesUpdate"}
    /\ w[p].i \in 1..Len(w[p].list)
    /\ w[p].list[w[p].i].key = k
    /\ k \in DOMAIN ccs
    /\ w'[p].pc # w[p].pc
    /\ ccs' # ccs

\* C14: detaching profile P from a ClusterConfiguration of a cluster it does not
\* match any more deletes the ClusterConfiguration if P is its only owner; if
\* other profiles own it too it persists, P's owner reference and P's status
\* block are removed, and the owner reference and the status block of every
\* other profile stay.
DetachContract ==
    [][\A p \in Profiles, k \in ClusterKeys :
          Detaching(p, k) =>
             IF w[p].pc = "cleanClusterConfiguration"
             THEN IF Range(ccs[k].owners) \subseteq {p}
                  THEN k \notin DOMAIN ccs'
                  ELSE /\ k \in DOMAIN ccs'
                       /\ ccs'[k].owners = RemoveOwnerRef(ccs[k].owners, p)
                       /\ ccs'[k].resources = ccs[k].resources
             ELSE /\ k \in DOMAIN ccs'
                  /\ ccs'[k].owners = ccs[k].owners
                  /\ ~Contains(ccs'[k].owners, p)
                  /\ ~Contains(ccs'[k].resources, p)
                  /\ Range(ccs'[k].resources) = Range(ccs[k].resources) \ {p}
                  /\ Len(ccs'[k].resources) = Len(ccs[k].resources) - 1]_vars

\* the summary of (p, k) exists and carries the spec and the annotations of
\* the profile
InStep(p, k) ==
    LET cs == summaries[SummaryKey(p, k)] IN
    /\ cs.spec.clusterProfileSpec = ProfileSpec(profiles[p])
    /\ cs.annotations = profiles[p].annotations

\* C15 as stated: after a successful normal reconcile of p1 in a mode other
\* than OneTime, every existing summary of p1 for a cluster of the match set
\* carries the spec and the annotations of the profile, ready or not.
SummaryTracksProfile ==
    (Succeeded("p1") /\ profiles["p1"].syncMode # "OneTime") =>
        \A k \in MatchSet("p1") :
            SummaryKey("p1", k) \in DOMAIN summaries => InStep("p1", k)

\* C15, amended: after a successful normal reconcile of p1 in a mode other than
\* OneTime, every existing summary of p1 for a cluster of the match set that is
\* ready to be configured carries the spec and the annotations of the profile.
SummaryOfReadyClusterTracksProfile ==
    (Succeeded("p1") /\ profiles["p1"].syncMode # "OneTime") =>
        \A k \in MatchSet("p1") :
            (Ready(k) /\ SummaryKey("p1", k) \in DOMAIN summaries) => InStep("p1", k)

\* a successful reconcile in Continuous mode has brought the summary of a
\* ready matched cluster, which its controller had taken up (finalizer), up to
\* an edited profile
SummaryBroughtUpToDate ==
    /\ Succeeded("p1")
    /\ profiles["p1"].syncMode = "Continuous"
    /\ \/ profiles["p1"].payload # NewProfile(SelProd, "Continuous").payload
       \/ profiles["p1"].annotations # NewProfile(SelProd, "Continuous").annotations
    /\ \E k \in MatchSet("p1") :
         /\ Ready(k)
         /\ SummaryKey("p1", k) \in DOMAIN summaries
         /\ summaries[SummaryKey("p1", k)].finalizer
         /\ InStep("p1", k)

\* C16: a normal reconcile of a profile whose selector cannot be parsed does not
\* crash; once the clusters are listed its match set is empty; and when it
\* returns no error the status records the empty match set, no
\* ClusterConfiguration is owned by the profile and every summary of the profile
\* is deleted or marked for deletion.
UnparseableSelectorTolerated ==
    (/\ w["p1"].pc = "done"
     /\ w["p1"].path = "normal"
     /\ Parse(w["p1"].prof.selector).err)
        => /\ ~w["p1"].panic
           /\ w["p1"].listed => w["p1"].prof.matching = <<>>
           /\ ~w["p1"].err =>
                /\ profiles["p1"].matching = <<>>
                /\ \A k \in DOMAIN ccs : ~Contains(ccs[k].owners, "p1")
                /\ \A sk \in SummariesOf(summaries, "p1") : summaries[sk].deleting

\* C17: after a successful normal reconcile of p1, whatever labels a cluster
\* takes next, the cluster event mapper returns p1 if the cluster is in the
\* match set of p1 (so also when the new labels stop matching) and if the new
\* labels satisfy the selector of p1 (so also when the cluster starts
\* matching); and it returns every profile ClusterMap records for the cluster
\* and every profile whose recorded selector matches the new labels.
MapperCoversBothCases ==
    Succeeded("p1") =>
        \A k \in ClusterKeys, l \in LabelSets :
            LET requests == requeueClusterProfileForCluster(k, l) IN
            /\ k \in MatchSet("p1") => "p1" \in requests
            /\ Satisfies(profiles["p1"].selector, l) => "p1" \in requests
            /\ \A q \in Profiles :
                 (k \in DOMAIN ClusterMap /\ q \in ClusterMap[k]) => q \in requests
            /\ \A q \in DOMAIN ClusterProfiles :
                 Satisfies(ClusterProfiles[q], l) => q \in requests

\* after a successful reconcile p1 matches one cluster whose next labels may
\* stop matching, and does not match another whose next labels may start
\* matching: the mapper returns p1 for both events
BothEventsRequeue ==
    /\ Succeeded("p1")
    /\ \E k \in MatchSet("p1"), l \in LabelSets :
         /\ ~Satisfies(profiles["p1"].selector, l)
         /\ "p1" \in requeueClusterProfileForCluster(k, l)
    /\ \E k \in DOMAIN clusters \ MatchSet("p1"), l \in LabelSets :
         /\ ~clusters[k].deleting
         /\ ~Satisfies(profiles["p1"].selector, clusters[k].labels)
         /\ Satisfies(profiles["p1"].selector, l)
         /\ k \notin DOMAIN ClusterMap \/ "p1" \notin ClusterMap[k]
         /\ "p1" \in requeueClusterProfileForCluster(k, l)

\* C18: the readiness gate returns true for a cluster if and only if one of the
\* machines in the namespace of the cluster and labelled with its name is a
\* control-plane machine in phase Running; a Running machine that is no
\* control-plane machine, or a control-plane machine in another phase, does not
\* make the cluster ready.
ReadinessGate ==
    \A k \in ClusterKeys :
        LET ofCluster == {m \in machines : m.ns = k[1] /\ m.cluster = k[2]}
            gate == isClusterReadyToBeConfigured(machines, k)
        IN /\ gate <=> \E m \in ofCluster : m.cp /\ m.phase = "Running"
           /\ (\A m \in ofCluster : m.phase = "Running" => ~m.cp) => ~gate
           /\ (\A m \in ofCluster : m.cp => m.phase # "Running") => ~gate

\* updateClusterSummaries is about to ask the gate about a cluster that has a
\* Running worker machine and a control-plane machine still Provisioning,
\* beside a cluster that is ready: the gate answers false and true
GateRefusesRunningWorker ==
    /\ w["p1"].pc = "updateClusterSummaries"
    /\ w["p1"].i \in 1..Len(w["p1"].prof.matching)
    /\ LET k == Cluster("p1") IN
       /\ \E m \in machines : m.ns = k[1] /\ m.cluster = k[2] /\ ~m.cp /\ m.phase = "Running"
       /\ \E m \in machines : m.ns = k[1] /\ m.cluster = k[2] /\ m.cp /\ m.phase = "Provisioning"
       /\ ~isClusterReadyToBeConfigured(machines, k)
    /\ \E k \in ClusterKeys : isClusterReadyToBeConfigured(machines, k)

\* C19: a normal reconcile of a profile without the finalizer goes to
\* addFinalizer first; it computes the match set, refreshes the index and
\* creates or changes derived objects only with the finalizer persisted; and
\* when persisting fails it returns an error straight away, no derived object
\* and no index being touched from addFinalizer to the return.
FinalizerFirst ==
    [][/\ (Idle("p1") /\ ~Idle("p1")' /\ w'["p1"].path = "normal")
            => (w'["p1"].pc = "addFinalizer" <=> ~profiles["p1"].finalizer)
       /\ (w["p1"].path = "normal"
               /\ w["p1"].pc \notin {"idle", "addFinalizer", "Close", "done"})
            => profiles["p1"].finalizer
       /\ w["p1"].pc = "addFinalizer"
            => /\ \/ w'["p1"].pc = "getMatchingClusters" /\ profiles'["p1"].finalizer
                  \/ w'["p1"].pc = "Close" /\ w'["p1"].err /\ ~w'["p1"].listed
               /\ UNCHANGED <<ccs, summaries, reports, index>>
       /\ (w["p1"].path = "normal" /\ w["p1"].pc \in {"Close", "done"})
            => UNCHANGED <<ccs, summaries, reports, index>>]_vars

\* persisting the finalizer has just failed: the local object carries it, the
\* stored profile does not, the reconcile is returning the error, and neither
\* a derived object of p1 nor an index entry for it exists
AddFinalizerFailed ==
    /\ w["p1"].pc = "Close"
    /\ w["p1"].path = "normal"
    /\ w["p1"].err
    /\ w["p1"].prof.finalizer
    /\ ~profiles["p1"].finalizer
    /\ "p1" \notin DOMAIN ClusterProfiles
    /\ SummariesOf(summaries, "p1") = {}
    /\ \A k \in DOMAIN ccs : ~Contains(ccs[k].owners, "p1")

\* C20: the prune step of a reconcile of p1 that deletes a stale summary
\* without finalizer, which is gone at once, goes on without error: the
\* not-found on the summary just deleted is taken for success, on the normal
\* path and on the delete path.
PruneToleratesNotFound ==
    [][\A sk \in DOMAIN summaries :
          (/\ w["p1"].pc = "cleanClusterSummary"
           /\ summaries[sk].labels.profile = "p1"
           /\ sk \notin DOMAIN summaries')
              => /\ ~w'["p1"].err
                 /\ w'["p1"].pc \in {"cleanClusterSummary", "allClusterSummariesGone",
                                     "cleanClusterConfigurations"}]_vars

\* C21: the prune step and the detach step take an owned summary, or a
\* ClusterConfiguration, for still matching if and only if its (cluster
\* namespace, cluster name) pair is in the match set of the reconcile, also when
\* another pair gives the same joined key.
StalenessByPair ==
    /\ w["p1"].pc = "cleanClusterSummary" =>
          \A sk \in SummariesOf(summaries, "p1") :
             StillMatching(w["p1"].prof.matching, summaries[sk])
                <=> <<summaries[sk].spec.clusterNamespace, summaries[sk].spec.clusterName>>
                        \in Range(w["p1"].prof.matching)
    /\ w["p1"].pc = "cleanClusterConfiguration" =>
          \A k \in DOMAIN ccs :
             ConfigurationStillMatching(w["p1"].prof.matching, k)
                <=> k \in Range(w["p1"].prof.matching)

\* C22: a normal reconcile of p1 in which the Create of a ClusterSummary for a
\* ready matched cluster failed returns an error.
CreateFailureSurfaces ==
    (/\ w["p1"].pc = "done"
     /\ w["p1"].path = "normal"
     /\ w["p1"].createFailed)
        => w["p1"].err

\* the step of reconcileNormal a position belongs to: 1 ensuring the
\* ClusterConfigurations, 2 reports, 3 summaries, 4 prune, 5 detach, 6 the
\* return; 0 before the fan-out
StepOf(pc) ==
    CASE pc \in {"createClusterConfiguration", "updateClusterConfiguration",
                 "ownerReferencesGet", "ownerReferencesUpdate", "resourcesGet",
                 "resourcesGetInner", "resourcesUpdate"} -> 1
      [] pc = "updateClusterReports" -> 2
      [] pc = "updateClusterSummaries" -> 3
      [] pc \in {"cleanClusterSummaries", "cleanClusterSummary"} -> 4
      [] pc \in {"cleanClusterConfigurations", "cleanClusterConfiguration",
                 "cleanResourcesGet", "cleanResourcesUpdate"} -> 5
      [] pc \in {"Close", "done"} -> 6
      [] OTHER -> 0

NotReadyStillAttached ==
    \A p \in Profiles :
        Succeeded(p) =>
            \A k \in MatchSet(p) :
                ~Ready(k) =>
                    /\ k \in DOMAIN ccs
                    /\ Contains(ccs[k].owners, p)
                    /\ Contains(ccs[k].resources, p)
                    /\ profiles[p].syncMode = "DryRun" => ReportKey(p, k) \in DOMAIN reports

\* cluster k is selected by profile p now and is ready
MatchedAndReady(p, k) ==
    /\ p \in DOMAIN profiles
    /\ k \in DOMAIN clusters
    /\ ~clusters[k].deleting
    /\ Satisfies(profiles[p].selector, clusters[k].labels)
    /\ Ready(k)

\* C25: a cluster matched by p1 that was not ready and whose control-plane
\* machine has reached Running gets its ClusterSummary in the end (as long as
\* it stays matched and ready), the machine event having enqueued p1, queued
\* reconciles being run, and failed reconciles not going on for ever.
SummaryOnceReady ==
    <>[]~(w["p1"].pc = "done" /\ w["p1"].err)
        => (MatchedAndReady("p1", Cluster1)
               ~> (\/ SummaryKey("p1", Cluster1) \in DOMAIN summaries
                   \/ ~MatchedAndReady("p1", Cluster1)))

\* the step of reconcileDelete a position belongs to: 1 deleting the summaries,
\* 2 the drain check, 3 detaching the ClusterConfigurations, 4 deleting the
\* reports, 5 the final drain check, 6 the finalizer removal, 7 the return
DeleteStepOf(pc) ==
    CASE pc \in {"cleanClusterSummaries", "cleanClusterSummary"} -> 1
      [] pc = "allClusterSummariesGone" -> 2
      [] pc \in {"cleanClusterConfigurations", "cleanClusterConfiguration",
                 "cleanResourcesGet", "cleanResourcesUpdate"} -> 3
      [] pc = "cleanClusterReports" -> 4
      [] pc = "canRemoveFinalizer" -> 5
      [] pc = "RemoveFinalizer" -> 6
      [] pc \in {"Close", "done"} -> 7
      [] OTHER -> 0

\* C26: in a delete reconcile of p1 the steps run in their order; a
\* ClusterConfiguration is detached or deleted only in the detach step and a
\* report deleted only in the report step, both after a drain check of this
\* run has found no summary of p1 and never in a run in which a drain check
\* found one; the finalizer is removed only after the detach, the report
\* deletion and a second drain check.
DeleteOrdering ==
    [][(w["p1"].path = "delete" /\ ~Idle("p1")) =>
         /\ ~Idle("p1")' => DeleteStepOf(w'["p1"].pc) >= DeleteStepOf(w["p1"].pc)
         /\ ccs' # ccs =>
               /\ DeleteStepOf(w["p1"].pc) = 3
               /\ w["p1"].drainChecks = 1
               /\ SummariesOf(summaries, "p1") = {}
         /\ reports' # reports =>
               /\ DeleteStepOf(w["p1"].pc) = 4
               /\ w["p1"].drainChecks = 1
               /\ SummariesOf(summaries, "p1") = {}
         /\ w["p1"].drainFalse => UNCHANGED <<ccs, reports>>
         /\ (~Idle("p1")' /\ w["p1"].prof.finalizer /\ ~w'["p1"].prof.finalizer) =>
               /\ DeleteStepOf(w["p1"].pc) = 6
               /\ w["p1"].drainChecks = 2
               /\ ~w["p1"].drainFalse]_vars

\* a delete reconcile has ended at the drain check, a summary of p1 being
\* listed: p1 still owns a ClusterConfiguration and keeps its finalizer
DetachWaitsForDrain ==
    /\ w["p1"].pc = "done"
    /\ w["p1"].path = "delete"
    /\ w["p1"].drainFalse
    /\ w["p1"].requeueAfter
    /\ SummariesOf(summaries, "p1") # {}
    /\ \E k \in DOMAIN ccs : Contains(ccs[k].owners, "p1") /\ Contains(ccs[k].resources, "p1")
    /\ "p1" \in DOMAIN profiles /\ profiles["p1"].finalizer

\* profile p is recorded as a consumer of cluster c in the map cm
MemberOf(cm, c, p) == c \in DOMAIN cm /\ p \in cm[c]

\* the entry of key p in the map f, absent entries told apart from present ones
EntryOf(f, p) == IF p \in DOMAIN f THEN <<f[p]>> ELSE <<>>

\* C27: after updatesMaps has run for profile p with match set M,
\* ClusterProfileMap[p] is M, p is recorded in ClusterMap[c] exactly for the
\* clusters c of M, ClusterProfiles[p] is p's selector, and the membership of
\* every other profile in every ClusterMap entry and every other profile's
\* ClusterProfileMap and ClusterProfiles entry are as before.
IndexRefreshPostcondition ==
    [][\A p \in Profiles :
         (w[p].pc = "updatesMaps" /\ w'[p].pc # "updatesMaps") =>
            LET M == Range(w[p].prof.matching) IN
            /\ p \in DOMAIN ClusterProfileMap' /\ ClusterProfileMap'[p] = M
            /\ \A c \in ClusterKeys : MemberOf(ClusterMap', c, p) <=> c \in M
            /\ p \in DOMAIN ClusterProfiles' /\ ClusterProfiles'[p] = w[p].prof.selector
            /\ \A q \in Profiles \ {p} :
                 /\ \A c \in ClusterKeys : MemberOf(ClusterMap', c, q) <=> MemberOf(ClusterMap, c, q)
                 /\ EntryOf(ClusterProfileMap', q) = EntryOf(ClusterProfileMap, q)
                 /\ EntryOf(ClusterProfiles', q) = EntryOf(ClusterProfiles, q)]_vars

\* updatesMaps has just run for p1, whose match set has moved from Cluster2
\* to Cluster1: p1 was erased from the entry of Cluster2, which stays as an
\* empty set, and added to the entry of Cluster1 beside p2
RefreshErased ==
    /\ w["p1"].pc = "createClusterConfiguration"
    /\ w["p1"].i = 1
    /\ ClusterProfileMap["p1"] = {Cluster1}
    /\ Range(w["p1"].prof.matching) = {Cluster1}
    /\ ClusterProfileMap["p2"] = {Cluster1}
    /\ ClusterMap[Cluster1] = {"p1", "p2"}
    /\ Cluster2 \in DOMAIN ClusterMap /\ ClusterMap[Cluster2] = {}

\* C28: the two index maps are inverses of each other in every state: a
\* profile p is recorded in ClusterMap[c] exactly when c is recorded in
\* ClusterProfileMap[p].
IndexMapsInverse ==
    \A p \in Profiles, c \in ClusterKeys :
       MemberOf(ClusterMap, c, p) <=> (p \in DOMAIN ClusterProfileMap /\ c \in ClusterProfileMap[p])

\* both profiles have refreshed the index for Cluster1 and p1, whose selector
\* has changed since, has just refreshed again: it is erased from the entry
\* of Cluster1, where p2 is still recorded, and still owns the cluster's
\* ClusterConfiguration from its earlier reconcile
IndexRefreshedByBoth ==
    /\ Profiles \subseteq DOMAIN ClusterProfileMap
    /\ Cluster1 \in DOMAIN ClusterMap
    /\ ClusterProfileMap["p1"] = {}
    /\ ClusterProfileMap["p2"] = {Cluster1}
    /\ ClusterMap[Cluster1] = {"p2"}
    /\ w["p1"].pc = "updateClusterReports"
    /\ Cluster1 \in DOMAIN ccs /\ Contains(ccs[Cluster1].owners, "p1")

\* the three maps idx agree on every profile: it is recorded for a cluster in
\* ClusterMap exactly when the cluster is in its ClusterProfileMap entry, and
\* it has a ClusterProfiles entry exactly when it has a ClusterProfileMap entry
Coherent(idx) ==
    \A p \in Profiles :
       /\ \A c \in ClusterKeys :
            MemberOf(idx[1], c, p) <=> (p \in DOMAIN idx[2] /\ c \in idx[2][p])
       /\ p \in DOMAIN idx[2] <=> p \in DOMAIN idx[3]

\* the three maps idx after one refresh for profile p with match set M and
\* selector sel, taken as a single step
RefreshOf(idx, p, M, sel) ==
    << [c \in DOMAIN idx[1] \cup M |->
          LET old == IF c \in DOMAIN idx[1] THEN idx[1][c] ELSE {} IN
          IF c \in M THEN old \cup {p} ELSE old \ {p}],
       [q \in DOMAIN idx[2] \cup {p} |-> IF q = p THEN M ELSE idx[2][q]],
       [q \in DOMAIN idx[3] \cup {p} |-> IF q = p THEN sel ELSE idx[3][q]] >>

\* C29: refreshes of the index are atomic: what an event mapper reads under
\* r.Mux never shows a profile recorded in ClusterMap without the matching
\* ClusterProfileMap and ClusterProfiles entries, and a refresh that ends
\* leaves the index as one single-step refresh applied to the index found when
\* r.Mux was taken, so that the index is always the result of the finished
\* refreshes applied one after the other in the order of their locks.
IndexRefreshAtomic ==
    /\ [](w["mapper"].seen # <<>> => Coherent(w["mapper"].seen))
    /\ [][\A p \in Profiles :
            (w[p].pc = "storeClusterProfiles" /\ w'[p].pc # "storeClusterProfiles") =>
               index' = RefreshOf(w[p].locked, p, Range(w[p].prof.matching),
                                  w[p].prof.selector)]_vars

\* p1 holds r.Mux in the middle of a refresh that moves it from Cluster1 to
\* Cluster2, ClusterMap updated and ClusterProfileMap not yet; p2 waits for
\* r.Mux; the event mapper has read the index as the previous refreshes of
\* both profiles left it
MapperReadBetweenRefreshes ==
    /\ w["p1"].pc = "storeClusterProfileMap"
    /\ w["p2"].pc = "updatesMaps"
    /\ ~Coherent(index)
    /\ w["mapper"].seen # <<>>
    /\ w["mapper"].seen = w["p1"].locked
    /\ Profiles \subseteq DOMAIN w["mapper"].seen[2]
    /\ w["mapper"].seen[2]["p1"] = {Cluster1}
    /\ Range(w["p1"].prof.matching) = {Cluster2}
    /\ ClusterMap[Cluster1] = {"p2"}
    /\ ClusterMap[Cluster2] = {"p1"}

\* the number of sections of profile p in the list resources
Sections(resources, p) == Cardinality({n \in 1..Len(resources) : resources[n] = p})

\* profile p has just finished the fan-out for cluster k
FannedOut(p, k) ==
    /\ w[p].pc \in {"resourcesGet", "resourcesUpdate"}
    /\ Cluster(p) = k
    /\ w'[p].pc \in {"createClusterConfiguration", "updateClusterReports"}

\* C30: Status.ClusterProfileResources of a ClusterConfiguration never holds
\* two sections of one profile, through repeated reconciles and conflict
\* retries alike, and when profile p has finished the fan-out for a matching
\* cluster it holds exactly one section of p.
OneSectionPerProfile ==
    /\ [](\A k \in DOMAIN ccs : \A p \in Range(ccs[k].resources) :
             Sections(ccs[k].resources, p) = 1)
    /\ [][\A p \in Profiles, k \in ClusterKeys :
            FannedOut(p, k) => k \in DOMAIN ccs' /\ Sections(ccs'[k].resources, p) = 1]_vars

\* p1 has added its section after a conflict with the write of p2 and a
\* retry, and has then ended the reconcile without an error: the
\* ClusterConfiguration holds one section of each profile
SectionAddedAfterConflict ==
    /\ w["p1"].pc = "done"
    /\ w["p1"].conflicted
    /\ Succeeded("p1")
    /\ Cluster1 \in DOMAIN ccs
    /\ Range(ccs[Cluster1].resources) = {"p1", "p2"}
    /\ Len(ccs[Cluster1].resources) = 2

\* the names sections can carry
SectionNames == {"p1", "p2", "p3"}

\* C31: the Status().Update of the removal writes the list read, less the one
\* section of p1: one element shorter, no section of p1 left, every other
\* profile's section kept once, wherever the section of p1 stood; and when the
\* ClusterConfiguration no longer exists the removal writes nothing and
\* returns no error.
SwapRemovesOneSection ==
    [][/\ (w["p1"].pc = "cleanResourcesUpdate" /\ ccs' # ccs) =>
            LET k == w["p1"].cur.key
                old == ccs[k].resources
                new == ccs'[k].resources
            IN /\ Len(new) = Len(old) - 1
               /\ Sections(old, "p1") = 1
               /\ \A q \in SectionNames :
                    Sections(new, q) = IF q = "p1" THEN 0 ELSE Sections(old, q)
               /\ ccs'[k].owners = ccs[k].owners
       /\ (w["p1"].pc = "cleanResourcesGet" /\ w["p1"].list[w["p1"].i].key \notin DOMAIN ccs) =>
            /\ ccs' = ccs
            /\ ~w'["p1"].err
            /\ w'["p1"].pc = "cleanClusterConfiguration"]_vars

\* p1 has removed its section, which stood first of three: the last section
\* has taken its place
SectionRemovedFromFront ==
    /\ w["p1"].pc = "cleanClusterConfiguration"
    /\ w["p1"].i = 2
    /\ w["p1"].list[1].resources = <<"p1", "p2", "p3">>
    /\ Cluster1 \in DOMAIN ccs
    /\ ccs[Cluster1].resources = <<"p3", "p2">>

\* C32: removing the owner reference of a profile re-reads the
\* ClusterConfiguration and retries on conflict: when another writer has
\* changed the ClusterConfiguration since the detaching reconcile listed it,
\* the removal does not end with the error of a conflict, and what it writes
\* keeps every owner reference the other writer has stored.
DetachRereadsAndRetries ==
    [][\A p \in Profiles :
         (/\ w[p].pc = "cleanClusterConfiguration"
          /\ w[p].i \in 1..Len(w[p].list)
          /\ ~w[p].list[w[p].i].fresh
          /\ w'[p].pc # w[p].pc) =>
             LET k == w[p].list[w[p].i].key IN
             /\ ~w'[p].detachConflict
             /\ (k \in DOMAIN ccs /\ ccs' # ccs) =>
                  \A q \in Range(ccs[k].owners) \ {p} :
                     k \in DOMAIN ccs' /\ Contains(ccs'[k].owners, q)]_vars

\* C33: a create step meeting an object that exists leaves it as it is and is
\* no error: createClusterConfiguration goes on to the update of the owner
\* references with the ClusterConfiguration, its owner references and its
\* sections unchanged, and createClusterReports keeps every ClusterReport
\* that exists as it is and ends without an error when all of them exist.
CreateKeepsExisting ==
    [][\A p \in Profiles :
         /\ (/\ w[p].pc = "createClusterConfiguration"
             /\ w'[p].pc # w[p].pc
             /\ Cluster(p) \in DOMAIN ccs) =>
                /\ Cluster(p) \in DOMAIN ccs'
                /\ ccs'[Cluster(p)] = ccs[Cluster(p)]
                /\ w'[p].pc = "updateClusterConfiguration" \/ w'[p].err
         /\ (/\ w[p].pc = "updateClusterReports"
             /\ w'[p].pc # w[p].pc
             /\ w[p].prof.syncMode = "DryRun") =>
                /\ \A rk \in DOMAIN reports : rk \in DOMAIN reports' /\ reports'[rk] = reports[rk]
                /\ (reports' = reports /\ ~w'[p].err) =>
                      \A k \in Range(w[p].prof.matching) : ReportKey(p, k) \in DOMAIN reports]_vars

\* p1, in DryRun, has run its create steps over the ClusterConfiguration and
\* the ClusterReport an earlier reconcile of p1 left: both are there, the
\* ClusterConfiguration with the owner references and sections of p2 and p1
CreatedOverExisting ==
    /\ w["p1"].pc = "updateClusterSummaries"
    /\ w["p1"].i = 1
    /\ ~w["p1"].err
    /\ w["p1"].prof.syncMode = "DryRun"
    /\ w["p1"].prof.matching = <<Cluster1>>
    /\ ReportKey("p1", Cluster1) \in DOMAIN reports
    /\ SummaryKey("p1", Cluster1) \in DOMAIN summaries
    /\ summaries[SummaryKey("p1", Cluster1)].spec.clusterProfileSpec.syncMode = "DryRun"
    /\ Cluster1 \in DOMAIN ccs
    /\ ccs[Cluster1].owners = <<"p2", "p1">>
    /\ ccs[Cluster1].resources = <<"p2", "p1">>

\* C34: a ClusterSummary that a reconcile of profile p creates for the cluster
\* k = (ns, name) is stored in namespace ns, has p as its only owner
\* reference, carries the labels profile = p, cluster namespace = ns and
\* cluster name = name, and has Spec.ClusterNamespace = ns, Spec.ClusterName =
\* name and Spec.ClusterProfileSpec equal to the spec of p at that moment.
CreatedSummaryShape ==
    [][\A p \in Profiles :
         (w[p].pc = "updateClusterSummaries" /\ w'[p] # w[p]) =>
            \A sk \in DOMAIN summaries' \ DOMAIN summaries :
               LET k == Cluster(p)
                   cs == summaries'[sk]
               IN /\ sk[1] = k[1]
                  /\ cs.namespace = k[1]
                  /\ cs.owners = <<p>>
                  /\ cs.labels = [profile |-> p, clusterNamespace |-> k[1], clusterName |-> k[2]]
                  /\ cs.spec.clusterNamespace = k[1]
                  /\ cs.spec.clusterName = k[2]
                  /\ cs.spec.clusterProfileSpec = ProfileSpec(w[p].prof)
                  /\ p \in DOMAIN profiles
                  /\ cs.spec.clusterProfileSpec = ProfileSpec(profiles[p])]_vars

\* p1, which selects env=dev, has just created the ClusterSummary for Cluster2
\* in its first reconcile
SummaryJustCreated ==
    /\ w["p1"].pc = "cleanClusterSummaries"
    /\ ~w["p1"].createFailed
    /\ w["p1"].prof.matching = <<Cluster2>>
    /\ SummaryKey("p1", Cluster2) \in DOMAIN summaries
    /\ summaries[SummaryKey("p1", Cluster2)].labels.clusterName = Cluster2[2]
    /\ ~summaries[SummaryKey("p1", Cluster2)].finalizer
    /\ envBudget = MaxEnvChanges

\* C35: no step of a delete reconcile changes ClusterMap, ClusterProfileMap or
\* ClusterProfiles, from the start of the reconcile to its return: once the
\* profile is gone the three maps hold what its last normal reconcile wrote.
DeletePathKeepsIndex ==
    [][\A p \in Profiles :
         (w'[p] # w[p] /\ (w[p].path = "delete" \/ w'[p].path = "delete")) =>
            /\ ClusterMap' = ClusterMap
            /\ ClusterProfileMap' = ClusterProfileMap
            /\ ClusterProfiles' = ClusterProfiles]_vars

\* p1 has been deleted, its finalizer released and the object gone from the
\* API server; the three maps still record it for Cluster1
DeletedProfileStillIndexed ==
    /\ "p1" \notin DOMAIN profiles
    /\ w["p1"].pc = "done"
    /\ w["p1"].path = "delete"
    /\ ~w["p1"].prof.finalizer
    /\ "p1" \in DOMAIN ClusterProfileMap
    /\ ClusterProfileMap["p1"] = {Cluster1}
    /\ "p1" \in ClusterMap[Cluster1]
    /\ ClusterProfiles["p1"] = SelProd

====
